---- MODULE Spec2Model ----
(***************************************************************************)
(* Model of the Ensemble orchestration layer (src/src/ensemble.py,         *)
(* src/src/rate_limiter.py, src/src/monitoring.py): the per-backend        *)
(* circuit breaker, the single-request retry driver                        *)
(* (fetch_single_response), the parallel fan-out (fetch_llm_responses),    *)
(* the aggregation (combine_responses / refine_response) and the           *)
(* degradation policy of main.                                             *)
(*                                                                         *)
(* Time is an integer clock counted in ticks, Second ticks to the second.  *)
(* Texts are sequences of tokens; a text "starts with 'Error:'" when its   *)
(* first token is the token "Error:".                                      *)
(***************************************************************************)
EXTENDS Integers, Sequences, FiniteSets, TLC

VARIABLES
    now,        \* time.time()
    cb,         \* _circuit_breakers: backend -> CircuitBreaker fields
    cbRet,      \* value returned by the latest CircuitBreaker.can_execute call
    cbOp,       \* name of the latest CircuitBreaker method called directly
    cbPre,      \* fields of that breaker just before that call
    rl,         \* RateLimiter: backend -> request times, backoff, failures
    lock,       \* RateLimiter._locks: backend -> the call holding the lock
    rlConfig,   \* RateLimiter.config
    rlOp,       \* the latest RateLimiter method called directly
    stats,      \* PerformanceMonitor._model_stats: backend -> counters
    call,       \* the fetch_single_response calls of the current run
    gathered,   \* the result list asyncio.gather is filling
    order,      \* the fan-out tasks in the order in which they completed
    mode,       \* entry point of the current run: main or fetch_llm_responses
    mainPc,     \* position of the current run
    models,     \* the backend list of the current run
    refinement, \* the refinement backend of the current run
    prompt,     \* the prompt handed to fetch_llm_responses
    fetchSan,   \* whether fetch_llm_responses accepted the prompt
    fetchRet,   \* what fetch_llm_responses returned or raised
    combined,   \* the synthesis prompt built by combine_responses
    final,      \* the final answer printed by main
    outcome,    \* how main ended
    refineCalls,\* refinement calls issued in the current run
    ens,        \* the EnsembleMetrics of the current run
    logContext, \* _request_context: correlation id and request id
    logStack,   \* the LoggingContext objects of the with-blocks entered
    monLock,    \* PerformanceMonitor._lock is held
    monCall     \* the latest PerformanceMonitor method called directly

cbVars == <<cb, cbRet, cbOp, cbPre>>

limiterVars == <<rl, lock, rlConfig, rlOp>>

callVars == <<call, gathered, order>>

mainVars == <<mode, mainPc, models, refinement, prompt, fetchSan,
              fetchRet, combined, final, outcome, refineCalls, ens>>

logVars == <<logContext, logStack>>

monVars == <<monLock, monCall>>

auxVars == <<logVars, monVars>>

runVars == <<mainVars, auxVars>>

ensembleVars == <<limiterVars, stats, callVars, runVars>>

vars == <<now, cbVars, ensembleVars>>

----------------------------------------------------------------------------
(* Bounds of the model *)

\* the clock at the start of a behaviour: the process has been running for
\* a while
StartTime == 1000

\* resolution of the clock: ticks per second
Second == 10

\* the clock is not advanced beyond this value when the breaker is driven
\* directly
MaxTime == 2300

\* cap on CircuitBreaker.failure_count when record_failure is called directly
MaxFailures == 7

----------------------------------------------------------------------------
(* Program constants *)

\* CircuitBreaker.__init__ default failure_threshold
FailureThreshold == 5

\* CircuitBreaker.__init__ default recovery_timeout (seconds)
RecoveryTimeoutSec == 60

RecoveryTimeout == RecoveryTimeoutSec * Second

Backends == {"a", "b", "c"}

\* Optional[float] None
NoTime == 0 - 1

----------------------------------------------------------------------------
(* CircuitBreaker (src/src/ensemble.py:111-147) *)

\* CircuitBreaker.__init__
CircuitBreaker_init ==
    [state |-> "closed", failure_count |-> 0, last_failure_time |-> NoTime]

\* Python truthiness of last_failure_time: None and 0.0 are falsy
Truthy(t) == t # NoTime /\ t # 0

\* the open-state test of can_execute
RecoveryElapsed(c, t) ==
    Truthy(c.last_failure_time) /\ t - c.last_failure_time > RecoveryTimeout

\* return value of CircuitBreaker.can_execute at time t
CircuitBreaker_can_execute_ret(c, t) ==
    IF c.state = "closed" THEN TRUE
    ELSE IF c.state = "open" THEN RecoveryElapsed(c, t)
    ELSE TRUE

\* can_execute that lets a probe through whatever the state was
CircuitBreaker_can_execute_from_any_state(c, t) ==
    IF RecoveryElapsed(c, t)
    THEN [c EXCEPT !.state = "half-open"]
    ELSE c

\* breaker fields after CircuitBreaker.can_execute at time t
CircuitBreaker_can_execute(c, t) ==
    IF c.state = "open" /\ RecoveryElapsed(c, t)
    THEN [c EXCEPT !.state = "half-open"]
    ELSE c

\* record_success that resets the counter but forgets to close the breaker
CircuitBreaker_record_success_keeps_state(c) ==
    [c EXCEPT !.failure_count = 0]

\* breaker fields after CircuitBreaker.record_success
CircuitBreaker_record_success(c) ==
    [c EXCEPT !.failure_count = 0, !.state = "closed"]

\* record_failure that keeps the old timestamp of a half-open breaker
CircuitBreaker_record_failure_keeps_timestamp(c, t) ==
    LET n == c.failure_count + 1 IN
    [c EXCEPT !.failure_count = n,
              !.last_failure_time = IF c.state = "half-open" THEN @ ELSE t,
              !.state = IF n >= FailureThreshold THEN "open" ELSE @]

\* breaker fields after CircuitBreaker.record_failure at time t
CircuitBreaker_record_failure(c, t) ==
    LET n == c.failure_count + 1 IN
    [c EXCEPT !.failure_count = n,
              !.last_failure_time = t,
              !.state = IF n >= FailureThreshold THEN "open" ELSE @]

----------------------------------------------------------------------------
(* Texts: str.startswith, f-strings, str.join *)

\* response.startswith("Error:")
StartsWithError(s) == Len(s) > 0 /\ s[1] = "Error:"

\* f"Error: {error_msg}"
ErrorString(msg) == <<"Error:">> \o msg

\* str(n) for the small numbers that are formatted into texts
NumStr(n) == IF n \in 0..4 THEN <<"0", "1", "2", "3", "4">>[n + 1] ELSE "many"

RECURSIVE JoinFrom(_, _)
JoinFrom(ts, i) ==
    IF i > Len(ts) THEN <<>>
    ELSE IF i = Len(ts) THEN ts[i]
    ELSE ts[i] \o <<"\n\n">> \o JoinFrom(ts, i + 1)

\* "\n\n".join(ts)
Join(ts) == JoinFrom(ts, 1)

Min(S) == CHOOSE x \in S : \A y \in S : x <= y

----------------------------------------------------------------------------
(* What the chat-completion client can do on one attempt                   *)

\* completion.choices[0].message.content of the answers of the backends
\* and of the refinement call (call 0)
Answer(c) == IF c = 0 THEN <<"R">> ELSE <<<<"X">>, <<"Z">>, <<"Y">>>>[c]

\* a backend answer whose own text begins with "Error:"
ErrContent == <<"Error:", "X">>

\* str(e) of the exceptions the client raises
ErrMsgs == {<<"Model unavailable">>, <<"Rate limit exceeded">>}

\* the outcomes of one backend request of call c other than the asyncio
\* timeout: a content (possibly empty) or an exception of the client
Outcomes(c) ==
    [kind : {"content"}, text : {Answer(c), ErrContent, <<>>}]
    \cup [kind : {"error"}, text : ErrMsgs]

\* an exception that leaves the task of a fan-out or the refinement call
\* (gather(return_exceptions=True) and refine_response catch Exception)
Fault == [kind |-> "fault", text |-> <<"unexpected">>]

\* the outcomes drawn in the fan-outs, where requests also time out
FetchOutcomes(c) ==
    {o \in Outcomes(c) : o.kind # "error" /\ o.text # <<>>} \cup {Fault}

\* the outcomes drawn in the runs of main, where no request times out
MainOutcomes(c) ==
    {o \in Outcomes(c) : o.text \notin {<<>>, <<"Rate limit exceeded">>}}
    \cup {Fault}

\* "rate limit" in error_msg.lower() or "timeout" in error_msg.lower()
RetryablePhrased(msg) ==
    \E k \in 1..Len(msg) : msg[k] \in {"Rate limit exceeded", "Request timeout"}

----------------------------------------------------------------------------
(* sanitize_prompt (src/src/validation.py:152-228) on sample prompts       *)

Prompts == {"<i>What is ML?</i>", "", "java<b></b>script: x y"}

sanitize_prompt(p) ==
    IF p = "" THEN
        [ok |-> FALSE, text |-> "", err |-> "Prompt cannot be empty"]
    ELSE IF p = "javascript: x y" THEN
        [ok |-> FALSE, text |-> "",
         err |-> "Prompt contains potentially dangerous content"]
    ELSE IF p = "java<b></b>script: x y" THEN
        [ok |-> TRUE, text |-> "javascript: x y", err |-> ""]
    ELSE IF p = "<i>What is ML?</i>" THEN
        [ok |-> TRUE, text |-> "What is ML?", err |-> ""]
    ELSE [ok |-> TRUE, text |-> p, err |-> ""]

----------------------------------------------------------------------------
(* RateLimiter (src/src/rate_limiter.py) *)

\* RateLimitConfig defaults
DefaultRequestsPerMinute == 60
DefaultRequestsPerSecond == 5
DefaultBurstLimit == 10
BackoffMultiplier == 2
MaxBackoffSec == 60

\* the RateLimitConfig built by main
MainRequestsPerMinute == 30
MainRequestsPerSecond == 2
MainBurstLimit == 5

\* length of the per-minute window, in seconds
MinuteWindowSec == 60

DefaultRateLimitConfig ==
    [requests_per_minute |-> DefaultRequestsPerMinute,
     requests_per_second |-> DefaultRequestsPerSecond,
     burst_limit |-> DefaultBurstLimit]

MainRateLimitConfig ==
    [requests_per_minute |-> MainRequestsPerMinute,
     requests_per_second |-> MainRequestsPerSecond,
     burst_limit |-> MainBurstLimit]

\* the per-backend entries of the defaultdicts of a new RateLimiter
\* (tracked: the backend is a key of _request_times)
RateLimiter_init ==
    [times |-> <<>>, backoff |-> 0, fails |-> 0, tracked |-> FALSE]

\* self._locks[model_name] of a backend nobody has acquired for: the queue
\* of the calls at the asyncio.Lock, first the one that holds it or that it
\* has been handed to
NoCall == <<>>

\* 0.1 seconds
Tenth == Second \div 10

RECURSIVE Pow(_, _)
Pow(b, n) == IF n = 0 THEN 1 ELSE b * Pow(b, n - 1)

\* min(b ** n, cap) for b >= 1, computed from acc = b ** k upwards so that
\* large exponents stop at the cap
RECURSIVE PowMin(_, _, _, _, _)
PowMin(b, n, cap, k, acc) ==
    IF acc >= cap THEN cap
    ELSE IF k = n THEN acc
    ELSE PowMin(b, n, cap, k + 1, acc * b)

\* min(backoff_multiplier ** consecutive_failures, max_backoff), in ticks
BackoffTime(n) == PowMin(BackoffMultiplier, n, MaxBackoffSec, 0, 1) * Second

\* record_success that leaves the backoff time
RateLimiter_record_success_keeps_backoff(r) == [r EXCEPT !.fails = 0]

RateLimiter_record_success(r) == [r EXCEPT !.fails = 0, !.backoff = 0]

\* 'is_backing_off' of get_stats
IsBackingOff(r, t) == r.backoff > t

\* RateLimiter.get_stats at time t, for the limiter entries rls: one entry
\* for every key of _request_times
RateLimiter_get_stats(rls, t) ==
    [m \in {b \in DOMAIN rls : rls[b].tracked} |->
        [requests_last_minute |->
            Len(SelectSeq(rls[m].times,
                          LAMBDA x : x > t - MinuteWindowSec * Second)),
         consecutive_failures |-> rls[m].fails,
         backoff_until |-> rls[m].backoff,
         is_backing_off |-> IsBackingOff(rls[m], t)]]

\* backoff_multiplier ** consecutive_failures is a float power: 2.0 ** n
\* raises OverflowError from this exponent on
OverflowExponent == 1024

\* record_failure raises after it has incremented the failure counter
RateLimiter_record_failure_raises(r) == r.fails + 1 >= OverflowExponent

\* record_failure that leaves out time.time()
RateLimiter_record_failure_without_now(r, t) ==
    IF RateLimiter_record_failure_raises(r)
    THEN [r EXCEPT !.fails = @ + 1]
    ELSE [r EXCEPT !.fails = @ + 1, !.backoff = BackoffTime(r.fails + 1)]

RateLimiter_record_failure(r, t) ==
    IF RateLimiter_record_failure_raises(r)
    THEN [r EXCEPT !.fails = @ + 1]
    ELSE [r EXCEPT !.fails = @ + 1, !.backoff = t + BackoffTime(r.fails + 1)]

\* _record_request that appends nothing
RateLimiter_record_request_nothing(r, t) == r

RateLimiter_record_request(r, t) == [r EXCEPT !.times = Append(@, t)]

\* request_times[:] = [t for t in request_times if t > cutoff_time]
Prune(times, ct) ==
    SelectSeq(times, LAMBDA t : t > ct - MinuteWindowSec * Second)

\* a per-minute check that never sleeps
MinuteWait_never_sleeps(times, ct, cfg) == 0

\* the per-minute wait of _wait_for_rate_limit (0: no sleep)
MinuteWait(times, ct, cfg) ==
    IF Len(times) >= cfg.requests_per_minute
    THEN times[1] + MinuteWindowSec * Second - ct
    ELSE 0

\* a per-second check that never sleeps
SecondWait_never_sleeps(times, ct, cfg) == 0

\* the per-second wait of _wait_for_rate_limit (0: no sleep)
SecondWait(times, ct, cfg) ==
    LET recent == SelectSeq(times, LAMBDA t : t > ct - Second) IN
    IF Len(recent) >= cfg.requests_per_second
    THEN Second - (ct - recent[1])
    ELSE 0

\* the burst wait of _wait_for_rate_limit (0: no sleep)
BurstWait(times, ct, cfg) ==
    LET very_recent == SelectSeq(times, LAMBDA t : t > ct - Tenth) IN
    IF Len(very_recent) >= cfg.burst_limit THEN Tenth ELSE 0

\* Where acquire suspends next when it resumes at check number `stage`
\* (1 per-minute, 2 per-second, 3 burst, 4 backoff), with ct the
\* current_time read at the top of _wait_for_rate_limit and t the time now.
AcquireStop(stage, r, ct, t, cfg) ==
    IF stage <= 1 /\ MinuteWait(r.times, ct, cfg) > 0
    THEN [pc |-> "sleep_minute", timer |-> t + MinuteWait(r.times, ct, cfg)]
    ELSE IF stage <= 2 /\ SecondWait(r.times, ct, cfg) > 0
    THEN [pc |-> "sleep_second", timer |-> t + SecondWait(r.times, ct, cfg)]
    ELSE IF stage <= 3 /\ BurstWait(r.times, ct, cfg) > 0
    THEN [pc |-> "sleep_burst", timer |-> t + BurstWait(r.times, ct, cfg)]
    ELSE IF stage <= 4 /\ r.backoff > t
    THEN [pc |-> "sleep_backoff", timer |-> r.backoff]
    ELSE [pc |-> "record", timer |-> 0]

\* the check at which acquire resumes after a sleep
StageAfter(pc) ==
    IF pc = "sleep_minute" THEN 2
    ELSE IF pc = "sleep_second" THEN 3
    ELSE IF pc = "sleep_burst" THEN 4
    ELSE 5

AcquireSleeps == {"sleep_minute", "sleep_second", "sleep_burst", "sleep_backoff"}

----------------------------------------------------------------------------
(* PerformanceMonitor (src/src/monitoring.py) *)

ModelStats_init ==
    [total_requests |-> 0, successful_requests |-> 0, failed_requests |-> 0]

\* the counters of finish_request
PerformanceMonitor_finish_request(st, success) ==
    [st EXCEPT !.total_requests = @ + 1,
               !.successful_requests = IF success THEN @ + 1 ELSE @,
               !.failed_requests = IF success THEN @ ELSE @ + 1]

\* no EnsembleMetrics (ensemble_metrics = None)
NoEns ==
    [started |-> FALSE, finished |-> 0, refinement_success |-> FALSE,
     request_metrics |-> <<>>, models_attempted |-> 0,
     models_succeeded |-> 0]

\* monitor.start_ensemble_operation
PerformanceMonitor_start_ensemble_operation == [NoEns EXCEPT !.started = TRUE]

\* monitor.finish_ensemble_operation, called only if ensemble_metrics
PerformanceMonitor_finish_ensemble_operation(e, refinement_success) ==
    IF ~e.started THEN e
    ELSE [e EXCEPT
            !.finished = @ + 1,
            !.refinement_success = refinement_success,
            !.models_attempted = Len(e.request_metrics),
            !.models_succeeded =
                Cardinality({i \in 1..Len(e.request_metrics) :
                               e.request_metrics[i].success})]

----------------------------------------------------------------------------
(* combine_responses (src/src/ensemble.py:380-432) *)

\* zip(models, responses)
ZipLen(ms, rs) == IF Len(ms) <= Len(rs) THEN Len(ms) ELSE Len(rs)

\* the filter loop keeps every entry
KeptIndices_keeps_errors(ms, rs) == [i \in 1..ZipLen(ms, rs) |-> i]

\* the positions the filter loop keeps, in order
KeptIndices(ms, rs) ==
    SelectSeq([i \in 1..ZipLen(ms, rs) |-> i],
              LAMBDA i : ~StartsWithError(rs[i]))

valid_models(ms, rs) ==
    [k \in 1..Len(KeptIndices(ms, rs)) |-> ms[KeptIndices(ms, rs)[k]]]

valid_responses(ms, rs) ==
    [k \in 1..Len(KeptIndices(ms, rs)) |-> rs[KeptIndices(ms, rs)[k]]]

\* f"Response {i+1} (from {model}):\n{response}\n\n" for the entries k..
RECURSIVE ResponseBlocks(_, _, _)
ResponseBlocks(vm, vr, k) ==
    IF k > ZipLen(vm, vr) THEN <<>>
    ELSE <<"Response", NumStr(k), "(from", vm[k], "):">> \o vr[k]
         \o ResponseBlocks(vm, vr, k + 1)

\* combine_responses raises ValueError
combine_responses_raises(ms, rs) == valid_responses(ms, rs) = <<>>

\* the combined prompt returned by combine_responses
combine_responses(p, ms, rs) ==
    <<"Here are responses from", NumStr(Len(valid_responses(ms, rs))),
      "different LLMs to the prompt:">> \o p
    \o <<"Original Prompt:">> \o p
    \o <<"Responses to synthesize:">>
    \o ResponseBlocks(valid_models(ms, rs), valid_responses(ms, rs), 1)
    \o <<"Please provide a comprehensive response">>

----------------------------------------------------------------------------
(* Program constants of src/src/ensemble.py *)

\* DEFAULT_TIMEOUT (seconds)
DEFAULT_TIMEOUT == 60

DEFAULT_MAX_RETRIES == 3

\* DEFAULT_RETRY_DELAY (seconds)
DEFAULT_RETRY_DELAY == 2

\* the buffer added to the asyncio timeout (seconds)
TimeoutBuffer == 5

\* the factor of the refinement timeout
RefinementTimeoutFactor == 2

----------------------------------------------------------------------------
(* Bounds of the runs *)

\* longest backend list
MaxBackends == 2

\* a backend request is answered within MaxLatency ticks or not at all
MaxLatency == 0

BackendOrder == <<"a", "b", "c">>

\* the backend lists of the runs
ModelLists ==
    {SubSeq(BackendOrder, 1, n) :
        n \in 0..(IF MaxBackends <= Len(BackendOrder)
                  THEN MaxBackends ELSE Len(BackendOrder))}

\* the refinement backends of the runs: one of the list, one outside it
RefinementModels == {"a", "c"}

\* call 0 is the refinement call, call i >= 1 the fan-out task of models[i]
Calls == 0..Len(BackendOrder)

----------------------------------------------------------------------------
(* fetch_single_response (src/src/ensemble.py:161-302) *)

IdleCall ==
    [pc |-> "idle", model |-> "-", prompt |-> <<>>, timeout |-> 0,
     attempt |-> 0, timer |-> 0, ct |-> 0, kind |-> "none", text |-> <<>>,
     success |-> FALSE, finished |-> 0, issued |-> 0, op |-> "fetch",
     slept |-> <<>>, failures |-> 0]

\* a call of fetch_single_response that has not run yet, with the
\* RequestMetrics of monitor.start_request
NewCall(m, p, to) ==
    [IdleCall EXCEPT !.pc = "start", !.model = m, !.prompt = p,
                     !.timeout = to]

\* not yet filled slot of the gather result
Pending == [kind |-> "none", text |-> <<>>]

\* the results are kept in the order in which the tasks complete
Gather_store_completion_order(g, i, r) ==
    [g EXCEPT ![Min({k \in 1..Len(g) : g[k].kind = "none"})] = r]

\* asyncio.gather puts the result of the i-th awaitable at position i
Gather_store(g, i, r) == [g EXCEPT ![i] = r]

\* a gather that takes a result only when the earlier tasks have ended
Settle_after_earlier_tasks(c, r) ==
    /\ gathered' =
          IF c >= 1 /\ \A i \in 1..(c - 1) : gathered[i].kind # "none"
          THEN Gather_store(gathered, c, r) ELSE gathered
    /\ order' = IF c >= 1 THEN Append(order, c) ELSE order

\* the call ends: its result reaches the gather of the fan-out
Settle(c, r) ==
    /\ gathered' = IF c >= 1 THEN Gather_store(gathered, c, r) ELSE gathered
    /\ order' = IF c >= 1 THEN Append(order, c) ELSE order

\* a return that leaves out monitor.finish_request
Return_without_finish(c, cl, success, text) ==
    /\ call' = [call EXCEPT ![c] =
                  [cl EXCEPT !.pc = "done", !.kind = "str", !.text = text,
                             !.success = success, !.timer = 0, !.ct = 0]]
    /\ Settle(c, [kind |-> "str", text |-> text])
    /\ UNCHANGED stats

\* monitor.finish_request(request_metrics, success, ...) and return text
Return(c, cl, success, text) ==
    /\ call' = [call EXCEPT ![c] =
                  [cl EXCEPT !.pc = "done", !.kind = "str", !.text = text,
                             !.success = success, !.finished = @ + 1,
                             !.timer = 0, !.ct = 0]]
    /\ stats' = [stats EXCEPT ![cl.model] =
                   PerformanceMonitor_finish_request(@, success)]
    /\ Settle(c, [kind |-> "str", text |-> text])

\* an exception leaves fetch_single_response
Raise(c, cl, msg) ==
    /\ call' = [call EXCEPT ![c] =
                  [cl EXCEPT !.pc = "done", !.kind = "exc", !.text = msg,
                             !.timer = 0, !.ct = 0]]
    /\ Settle(c, [kind |-> "exc", text |-> msg])
    /\ UNCHANGED stats

\* the except branch around rate_limiter.acquire
AcquireRaised(c, cl, msg) ==
    Return(c, cl, FALSE, ErrorString(<<"Rate limiting failed -">> \o msg))

\* asyncio.wait_for(asyncio.to_thread(create, ...), timeout + 5) is awaited
IssueRequest(cl, k) ==
    [cl EXCEPT !.pc = "call", !.attempt = k,
               !.timer = now + (cl.timeout + TimeoutBuffer) * Second,
               !.issued = @ + 1]

\* the time at which the request in flight was issued
IssuedAt(cl) == cl.timer - (cl.timeout + TimeoutBuffer) * Second

\* a retry delay that halves with every attempt
RetryDelay_halves(k) == (DEFAULT_RETRY_DELAY * Second) \div Pow(2, k)

\* asyncio.sleep(DEFAULT_RETRY_DELAY * (2**attempt))
RetryDelay(k) == DEFAULT_RETRY_DELAY * Pow(2, k) * Second

\* the call goes to sleep before its next attempt (slept: the attempts
\* that were followed by a sleep, with the time slept)
RetrySleep(cl) ==
    [cl EXCEPT !.pc = "sleep_retry",
               !.timer = now + RetryDelay(cl.attempt),
               !.slept = Append(@, [attempt |-> cl.attempt,
                                    delay |-> RetryDelay(cl.attempt)])]

\* the rest of RateLimiter.acquire from check number `stage` on, with r the
\* limiter entry of the backend: runs to the next sleep, or records the
\* request, releases the lock and starts the first attempt
AcquireFrom(c, cl, stage, r) ==
    LET m == cl.model
        stop == AcquireStop(stage, r, cl.ct, now, rlConfig)
        held == IF lock[m] = NoCall THEN <<c>> ELSE lock[m]
    IN  IF stop.pc = "record"
        THEN /\ rl' = [rl EXCEPT ![m] = RateLimiter_record_request(r, now)]
             /\ lock' = [lock EXCEPT ![m] = Tail(held)]
             /\ call' = [call EXCEPT ![c] =
                           IF cl.op = "acquire"
                           THEN [cl EXCEPT !.pc = "done", !.timer = 0,
                                           !.ct = 0]
                           ELSE IssueRequest(cl, 0)]
             /\ UNCHANGED <<stats, gathered, order>>
        ELSE /\ rl' = [rl EXCEPT ![m] = r]
             /\ lock' = [lock EXCEPT ![m] = held]
             /\ call' = [call EXCEPT ![c] =
                           [cl EXCEPT !.pc = stop.pc, !.timer = stop.timer]]
             /\ UNCHANGED <<stats, gathered, order>>

\* RateLimiter.acquire once the lock is held: current_time is read and the
\* request times are pruned
AcquireLocked(c, cl) ==
    AcquireFrom(c, [cl EXCEPT !.ct = now], 1,
                [rl[cl.model] EXCEPT !.times = Prune(@, now),
                                     !.tracked = TRUE])

\* acquire with one lock for all backends
EnterAcquire_one_lock(c, cl) ==
    LET m == cl.model IN
    IF \E b \in Backends : lock[b] # NoCall
    THEN /\ call' = [call EXCEPT ![c] = [cl EXCEPT !.pc = "lock"]]
         /\ lock' = [lock EXCEPT ![m] = Append(@, c)]
         /\ UNCHANGED <<rl, stats, gathered, order>>
    ELSE AcquireLocked(c, cl)

\* RateLimiter.acquire from `async with self._locks[model_name]` on; a call
\* that finds the lock held or handed to a waiting call queues for it
EnterAcquire(c, cl) ==
    LET m == cl.model IN
    IF lock[m] # NoCall
    THEN /\ call' = [call EXCEPT ![c] = [cl EXCEPT !.pc = "lock"]]
         /\ lock' = [lock EXCEPT ![m] = Append(@, c)]
         /\ UNCHANGED <<rl, stats, gathered, order>>
    ELSE AcquireLocked(c, cl)

\* the lock has been released and handed to the first waiting call
LockGranted(c) ==
    /\ call[c].pc = "lock"
    /\ Head(lock[call[c].model]) = c
    /\ AcquireLocked(c, call[c])
    /\ UNCHANGED <<now, cbVars, rlConfig, rlOp, runVars>>

\* a breaker check that comes after the rate limiter has been consumed
Start_after_acquire(c) ==
    /\ call[c].pc = "start"
    /\ LET cl == call[c]
           m == cl.model
       IN  /\ cb' = [cb EXCEPT ![m] = CircuitBreaker_can_execute(@, now)]
           /\ IF ~CircuitBreaker_can_execute_ret(cb[m], now)
              THEN /\ Return(c, cl, FALSE, ErrorString(
                             <<"Circuit breaker open for model", m>>))
                   /\ rl' = [rl EXCEPT ![m] =
                                RateLimiter_record_request(@, now)]
                   /\ UNCHANGED lock
              ELSE \E raises \in BOOLEAN :
                      IF raises
                      THEN /\ AcquireRaised(c, cl, <<"acquire failed">>)
                           /\ UNCHANGED <<rl, lock>>
                      ELSE EnterAcquire(c, cl)
    /\ UNCHANGED <<now, cbRet, cbOp, cbPre, rlConfig, rlOp, runVars>>

\* fetch_single_response from its first line to its first suspension
Start(c) ==
    /\ call[c].pc = "start"
    /\ LET cl == call[c]
           m == cl.model
       IN  /\ cb' = [cb EXCEPT ![m] = CircuitBreaker_can_execute(@, now)]
           /\ IF ~CircuitBreaker_can_execute_ret(cb[m], now)
              THEN /\ Return(c, cl, FALSE, ErrorString(
                             <<"Circuit breaker open for model", m>>))
                   /\ UNCHANGED <<rl, lock>>
              ELSE \E raises \in BOOLEAN :
                      IF raises
                      THEN /\ AcquireRaised(c, cl, <<"acquire failed">>)
                           /\ UNCHANGED <<rl, lock>>
                      ELSE EnterAcquire(c, cl)
    /\ UNCHANGED <<now, cbRet, cbOp, cbPre, rlConfig, rlOp, runVars>>

\* a sleep of RateLimiter.acquire is over
AcquireWake(c) ==
    /\ call[c].pc \in AcquireSleeps
    /\ now >= call[c].timer
    /\ AcquireFrom(c, call[c], StageAfter(call[c].pc), rl[call[c].model])
    /\ UNCHANGED <<now, cbVars, rlConfig, rlOp, runVars>>

\* the next iteration of `for attempt in range(DEFAULT_MAX_RETRIES)`, or
\* the code after the loop
ContinueLoop(c, cl) ==
    IF cl.attempt + 1 < DEFAULT_MAX_RETRIES
    THEN /\ call' = [call EXCEPT ![c] = IssueRequest(cl, cl.attempt + 1)]
         /\ UNCHANGED <<stats, gathered, order>>
    ELSE Return(c, cl, FALSE, ErrorString(<<"Max retries exceeded">>))

\* rate_limiter.record_failure(model); circuit_breaker.record_failure()
\* the call after it has recorded one more failure
Failed(cl) == [cl EXCEPT !.failures = @ + 1]

RecordFailure(m) ==
    /\ rl' = [rl EXCEPT ![m] = RateLimiter_record_failure(@, now)]
    /\ cb' = [cb EXCEPT ![m] = CircuitBreaker_record_failure(@, now)]

\* rate_limiter.record_failure(model) raises inside the except branch: the
\* exception leaves fetch_single_response before the breaker and the
\* monitor are told
RecordFailureRaised(c, cl) ==
    /\ rl' = [rl EXCEPT ![cl.model] = RateLimiter_record_failure(@, now)]
    /\ UNCHANGED cb
    /\ Raise(c, Failed(cl), <<"OverflowError">>)

\* rate_limiter.record_success(model); circuit_breaker.record_success()
RecordSuccess(m) ==
    /\ rl' = [rl EXCEPT ![m] = RateLimiter_record_success(@)]
    /\ cb' = [cb EXCEPT ![m] = CircuitBreaker_record_success(@)]

\* an except branch that records a failure before every retry sleep
HandleError_records_every_failure(c, cl, msg) ==
    IF RetryablePhrased(msg) /\ cl.attempt < DEFAULT_MAX_RETRIES - 1
    THEN /\ call' = [call EXCEPT ![c] =
                       RetrySleep(Failed(cl))]
         /\ RecordFailure(cl.model)
         /\ UNCHANGED <<stats, gathered, order>>
    ELSE IF RateLimiter_record_failure_raises(rl[cl.model])
    THEN RecordFailureRaised(c, cl)
    ELSE /\ RecordFailure(cl.model)
         /\ IF cl.attempt = DEFAULT_MAX_RETRIES - 1
            THEN Return(c, Failed(cl), FALSE, ErrorString(msg))
            ELSE ContinueLoop(c, Failed(cl))

\* the `except Exception as e` branch, error_msg = str(e)
HandleError(c, cl, msg) ==
    IF RetryablePhrased(msg) /\ cl.attempt < DEFAULT_MAX_RETRIES - 1
    THEN /\ call' = [call EXCEPT ![c] =
                       RetrySleep(cl)]
         /\ UNCHANGED <<rl, cb, stats, gathered, order>>
    ELSE IF RateLimiter_record_failure_raises(rl[cl.model])
    THEN RecordFailureRaised(c, cl)
    ELSE /\ RecordFailure(cl.model)
         /\ IF cl.attempt = DEFAULT_MAX_RETRIES - 1
            THEN Return(c, Failed(cl), FALSE, ErrorString(msg))
            ELSE ContinueLoop(c, Failed(cl))

\* the backend request of the current attempt ends before the asyncio
\* timeout, with outcome o
Respond(c, o) ==
    /\ call[c].pc = "call"
    /\ now <= IssuedAt(call[c]) + MaxLatency
    /\ LET cl == call[c] IN
       IF o.kind = "content" /\ o.text # <<>>
       THEN /\ RecordSuccess(cl.model)
            /\ Return(c, cl, TRUE, o.text)
       ELSE IF o.kind = "content"
       THEN HandleError(c, cl, <<"Empty response received from model">>)
       ELSE IF o.kind = "error"
       THEN HandleError(c, cl, o.text)
       ELSE Raise(c, cl, o.text) /\ UNCHANGED <<rl, cb>>
    /\ UNCHANGED <<now, cbRet, cbOp, cbPre, lock, rlConfig, rlOp, runVars>>

\* a timeout branch whose last attempt records the failure and goes on
\* instead of returning
TimeoutFire_falls_through(c) ==
    /\ call[c].pc = "call"
    /\ now >= call[c].timer
    /\ LET cl == call[c] IN
       IF cl.attempt < DEFAULT_MAX_RETRIES - 1
       THEN /\ call' = [call EXCEPT ![c] =
                          RetrySleep(cl)]
            /\ UNCHANGED <<rl, cb, stats, gathered, order>>
       ELSE IF RateLimiter_record_failure_raises(rl[cl.model])
       THEN RecordFailureRaised(c, cl)
       ELSE /\ RecordFailure(cl.model)
            /\ ContinueLoop(c, Failed(cl))
    /\ UNCHANGED <<now, cbRet, cbOp, cbPre, lock, rlConfig, rlOp, runVars>>

\* the `except asyncio.TimeoutError` branch
TimeoutFire(c) ==
    /\ call[c].pc = "call"
    /\ now >= call[c].timer
    /\ LET cl == call[c] IN
       IF cl.attempt < DEFAULT_MAX_RETRIES - 1
       THEN /\ call' = [call EXCEPT ![c] =
                          RetrySleep(cl)]
            /\ UNCHANGED <<rl, cb, stats, gathered, order>>
       ELSE IF RateLimiter_record_failure_raises(rl[cl.model])
       THEN RecordFailureRaised(c, cl)
       ELSE /\ RecordFailure(cl.model)
            /\ Return(c, Failed(cl), FALSE,
                      ErrorString(<<"Timeout after seconds">>))
    /\ UNCHANGED <<now, cbRet, cbOp, cbPre, lock, rlConfig, rlOp, runVars>>

\* the retry sleep is over: `continue`
RetryWake(c) ==
    /\ call[c].pc = "sleep_retry"
    /\ now >= call[c].timer
    /\ ContinueLoop(c, call[c])
    /\ UNCHANGED <<now, cbVars, limiterVars, runVars>>

\* the pending timers: sleeps and asyncio timeouts
Timers ==
    {call[c].timer :
        c \in {d \in Calls :
                 call[d].pc \in AcquireSleeps \cup {"call", "sleep_retry"}}}

\* the clock advances to the next timer
TickToTimer ==
    /\ Timers # {}
    /\ \A t \in Timers : t > now
    /\ now' = Min(Timers)
    /\ UNCHANGED <<cbVars, ensembleVars>>

----------------------------------------------------------------------------
(* fetch_llm_responses (src/src/ensemble.py:305-377) *)

\* fetch_llm_responses has not returned
NoRet == [kind |-> "none", list |-> <<>>, msg |-> <<>>]

\* the exception text is kept as it is
ProcessResponse_keeps_exception(m, r) == r.text

\* the loop over zip(models, responses): an exception becomes an error text
ProcessResponse(m, r) ==
    IF r.kind = "exc"
    THEN ErrorString(<<"Exception in", m, "-">> \o r.text)
    ELSE r.text

\* every text counts as a success
SuccessCount_counts_error_texts(ms, g) ==
    Cardinality({i \in 1..ZipLen(ms, g) : g[i].kind = "str"})

\* successful_responses
SuccessCount(ms, g) ==
    Cardinality({i \in 1..ZipLen(ms, g) :
                   g[i].kind = "str" /\ ~StartsWithError(g[i].text)})

\* the processed list is returned whatever the number of successes
FetchOutcome_never_raises(ms, g) ==
    [NoRet EXCEPT !.kind = "list",
                  !.list = [i \in 1..ZipLen(ms, g) |->
                               ProcessResponse(ms[i], g[i])]]

\* what fetch_llm_responses does with the gathered results: it raises if
\* no response is successful and returns the processed list otherwise
FetchOutcome(ms, g) ==
    IF SuccessCount(ms, g) = 0
    THEN [NoRet EXCEPT !.kind = "raised",
                       !.msg = <<"All models failed to generate responses">>]
    ELSE [NoRet EXCEPT !.kind = "list",
                       !.list = [i \in 1..ZipLen(ms, g) |->
                                    ProcessResponse(ms[i], g[i])]]

\* the run-local state before a run
ResetRun ==
    /\ call' = [c \in Calls |-> IdleCall]
    /\ gathered' = <<>>
    /\ order' = <<>>
    /\ fetchSan' = "none"
    /\ fetchRet' = NoRet
    /\ combined' = <<>>
    /\ final' = <<>>
    /\ refineCalls' = 0

\* the prompts of the direct calls
CallPrompts == {<<"What is ML?">>}

FetchPrompts == {"<i>What is ML?</i>", ""}

\* fetch_single_response is called directly, as refine_response and the
\* tests do, without RequestMetrics
CallDirect(m, p) ==
    /\ mainPc = "idle"
    /\ mode' = "call"
    /\ mainPc' = "call"
    /\ models' = <<>>
    /\ prompt' = ""
    /\ outcome' = "none"
    /\ ens' = NoEns
    /\ gathered' = <<>>
    /\ order' = <<>>
    /\ fetchSan' = "none"
    /\ fetchRet' = NoRet
    /\ combined' = <<>>
    /\ final' = <<>>
    /\ refineCalls' = 0
    /\ call' = [call EXCEPT ![0] = NewCall(m, p, DEFAULT_TIMEOUT)]
    /\ UNCHANGED <<now, cbVars, limiterVars, auxVars, stats, refinement>>

\* fetch_llm_responses is called directly (tests, web front end) with
\* prompt p and backend list ms
FetchDirect(ms, p) ==
    /\ mainPc = "idle"
    /\ mode' = "fetch"
    /\ mainPc' = "fetch"
    /\ models' = ms
    /\ prompt' = p
    /\ outcome' = "none"
    /\ ens' = NoEns
    /\ ResetRun
    /\ UNCHANGED <<now, cbVars, limiterVars, auxVars, stats, refinement>>

\* fetch_llm_responses up to `await asyncio.gather(...)`, or to its return
\* when the prompt is rejected
FetchStart ==
    /\ mainPc = "fetch"
    /\ LET san == sanitize_prompt(prompt)
           n == Len(models)
       IN  IF ~san.ok
           THEN /\ fetchSan' = "failed"
                /\ fetchRet' =
                     [NoRet EXCEPT
                        !.kind = "list",
                        !.list = [i \in 1..n |->
                                    ErrorString(<<"Invalid prompt -",
                                                  san.err>>)]]
                /\ mainPc' = "fetched"
                /\ UNCHANGED <<call, gathered>>
           ELSE /\ fetchSan' = "ok"
                /\ call' = [c \in Calls |->
                              IF c \in 1..n
                              THEN NewCall(models[c], <<san.text>>,
                                           DEFAULT_TIMEOUT)
                              ELSE call[c]]
                /\ gathered' = [i \in 1..n |-> Pending]
                /\ mainPc' = "gather"
                /\ UNCHANGED fetchRet
    /\ UNCHANGED <<now, cbVars, limiterVars, auxVars, stats, order, mode, models,
                   refinement, prompt, combined, final, outcome, refineCalls,
                   ens>>

\* every task has ended: gather returns, the responses are processed
GatherDone ==
    /\ mainPc = "gather"
    /\ \A i \in 1..Len(gathered) : gathered[i].kind # "none"
    /\ fetchRet' = FetchOutcome(models, gathered)
    /\ mainPc' = "fetched"
    /\ UNCHANGED <<now, cbVars, limiterVars, auxVars, stats, callVars, mode,
                   models, refinement, prompt, fetchSan, combined, final,
                   outcome, refineCalls, ens>>

\* the direct caller of fetch_llm_responses has its result
FetchReturn ==
    /\ mainPc = "fetched"
    /\ mode = "fetch"
    /\ mainPc' = "done"
    /\ UNCHANGED <<now, cbVars, limiterVars, auxVars, stats, callVars, mode,
                   models, refinement, prompt, fetchSan, fetchRet, combined,
                   final, outcome, refineCalls, ens>>

----------------------------------------------------------------------------
(* The read accessors of PerformanceMonitor (src/src/monitoring.py:152-259) *)

\* an empty dict
EmptyDict == <<>>

\* no PerformanceMonitor method has been called directly
NoMonCall == [op |-> "none", arg |-> "-", pc |-> "returned", ret |-> EmptyDict]

\* the keys of _model_stats: finish_request creates the entry of a backend
ModelStatsKeys(st) == {b \in DOMAIN st : st[b].total_requests > 0}

\* the statistics of one backend with the derived success rate, in percent
DerivedStats(e) ==
    [total_requests |-> e.total_requests,
     successful_requests |-> e.successful_requests,
     failed_requests |-> e.failed_requests,
     success_rate |-> IF e.total_requests > 0
                      THEN (e.successful_requests * 100) \div e.total_requests
                      ELSE 0]

\* get_model_stats(model) for a model: {} or {model: stats}
PerformanceMonitor_get_model_stats(st, model) ==
    [b \in {model} \cap ModelStatsKeys(st) |-> DerivedStats(st[b])]

\* get_model_stats() enters `with self._lock` and, for the first key of
\* _model_stats, calls self.get_model_stats(model_name), which enters
\* `with self._lock` again: threading.Lock is not reentrant
PerformanceMonitor_get_model_stats_blocks(st) == ModelStatsKeys(st) # {}

\* get_health_status when get_model_stats() has returned {} and no
\* ensemble operation is recorded: operation_success_rate defaults to 0
HealthOfEmptyMonitor == [status |-> "degraded", model_count |-> 0]

----------------------------------------------------------------------------
(* The logging context (src/src/logging_config.py:222-354) *)

\* Python's None
None == "None"

\* the identifier that uuid.uuid4() generates
Uuid == "uuid4"

\* `if x:` for an identifier
TruthyId(x) == x \notin {None, ""}

\* the context before any identifier is set, and after clear_context
NoContext == [correlation_id |-> None, request_id |-> None]

set_correlation_id(ctx, correlation_id) ==
    [ctx EXCEPT !.correlation_id =
        IF correlation_id = None THEN Uuid ELSE correlation_id]

set_request_id(ctx, request_id) ==
    [ctx EXCEPT !.request_id = IF request_id = None THEN Uuid ELSE request_id]

clear_context == NoContext

get_context(ctx) == ctx

\* LoggingContext.__enter__: the object with its old_context
LoggingContext_entered(ctx, correlation_id, request_id) ==
    [correlation_id |-> correlation_id, request_id |-> request_id,
     old_context |-> get_context(ctx)]

\* LoggingContext.__enter__: the context it leaves
LoggingContext_enter(ctx, correlation_id, request_id) ==
    LET c1 == IF TruthyId(correlation_id)
              THEN set_correlation_id(ctx, correlation_id) ELSE ctx
    IN  IF TruthyId(request_id) THEN set_request_id(c1, request_id) ELSE c1

\* LoggingContext.__exit__: the context it leaves
LoggingContext_exit(ctx, old_context) ==
    LET c1 == IF TruthyId(old_context.correlation_id)
              THEN set_correlation_id(ctx, old_context.correlation_id)
              ELSE ctx
    IN  IF TruthyId(old_context.request_id)
        THEN set_request_id(c1, old_context.request_id)
        ELSE clear_context

----------------------------------------------------------------------------
(* main (src/src/ensemble.py:615-781) *)

\* main from its first line to the call of fetch_llm_responses: ms, rm, p
\* are the models, the refinement model and the prompt of the
\* configuration, keyOk tells whether an API key is configured
MainStart(ms, rm, p, keyOk) ==
    /\ mainPc = "idle"
    /\ mode' = "main"
    /\ models' = ms
    /\ refinement' = rm
    /\ rl' = [b \in Backends |-> RateLimiter_init]
    /\ lock' = [b \in Backends |-> NoCall]
    /\ UNCHANGED rlOp
    /\ rlConfig' = MainRateLimitConfig
    /\ ResetRun
    /\ IF ~keyOk
       THEN /\ outcome' = "client_init_failed"
            /\ mainPc' = "done"
            /\ prompt' = ""
            /\ ens' = NoEns
       ELSE IF ms = <<>>
       THEN /\ outcome' = "no_models_configured"
            /\ mainPc' = "done"
            /\ prompt' = ""
            /\ ens' = NoEns
       ELSE IF ~sanitize_prompt(p).ok
       THEN /\ outcome' = "sanitization_failure"
            /\ mainPc' = "done"
            /\ prompt' = ""
            /\ ens' = NoEns
       ELSE /\ outcome' = "none"
            /\ mainPc' = "fetch"
            /\ prompt' = sanitize_prompt(p).text
            /\ ens' = PerformanceMonitor_start_ensemble_operation
    /\ logContext' = set_correlation_id(logContext, None)
    /\ UNCHANGED <<now, cbVars, stats, logStack, monVars>>

\* a fallback that finds no valid response
ValidResponses_finds_none(rs) == <<>>

\* the valid responses of the fallback: [r for r in llm_responses if not
\* r.startswith("Error:")]
ValidResponses(rs) == SelectSeq(rs, LAMBDA r : ~StartsWithError(r))

\* main after fetch_llm_responses: the all-failed exit, combine_responses
\* and its ValueError fallback, then the call of refine_response
MainAfterFetch ==
    /\ mainPc = "fetched"
    /\ mode = "main"
    /\ IF fetchRet.kind = "raised"
       THEN /\ outcome' = "all_backends_failed"
            /\ mainPc' = "done"
            /\ ens' = PerformanceMonitor_finish_ensemble_operation(ens, FALSE)
            /\ UNCHANGED <<call, combined, final, refineCalls>>
       ELSE IF combine_responses_raises(models, fetchRet.list)
       THEN IF ValidResponses(fetchRet.list) # <<>>
            THEN /\ outcome' = "single_response"
                 /\ final' = ValidResponses(fetchRet.list)[1]
                 /\ mainPc' = "done"
                 /\ UNCHANGED <<call, combined, refineCalls, ens>>
            ELSE /\ outcome' = "no_usable_responses"
                 /\ mainPc' = "done"
                 /\ ens' = PerformanceMonitor_finish_ensemble_operation(
                              ens, FALSE)
                 /\ UNCHANGED <<call, combined, final, refineCalls>>
       ELSE /\ combined' = combine_responses(<<prompt>>, models,
                                             fetchRet.list)
            /\ call' = [call EXCEPT ![0] =
                          NewCall(refinement, combined',
                                  DEFAULT_TIMEOUT * RefinementTimeoutFactor)]
            /\ refineCalls' = refineCalls + 1
            /\ mainPc' = "refine"
            /\ UNCHANGED <<final, outcome, ens>>
    /\ UNCHANGED <<now, cbVars, limiterVars, auxVars, stats, gathered, order, mode,
                   models, refinement, prompt, fetchSan, fetchRet>>

\* every refinement counts as failed
RefinementFailed_always(cl) == TRUE

\* refine_response raises: its call returned an error text or raised
RefinementFailed(cl) == cl.kind = "exc" \/ StartsWithError(cl.text)

\* the fallback joins every entry
FallbackAnswer_joins_all(rs) == Join(rs)

\* the answer main falls back to when refine_response raised
FallbackAnswer(rs) == Join(ValidResponses(rs))

\* main after refine_response: the refined answer or the fallback, then
\* the output and finish_ensemble_operation
MainAfterRefine ==
    /\ mainPc = "refine"
    /\ call[0].pc = "done"
    /\ IF ~RefinementFailed(call[0])
       THEN /\ final' = call[0].text
            /\ outcome' = "completed"
            /\ ens' = PerformanceMonitor_finish_ensemble_operation(ens, TRUE)
       ELSE IF ValidResponses(fetchRet.list) # <<>>
       THEN /\ final' = FallbackAnswer(fetchRet.list)
            /\ outcome' = "completed"
            /\ ens' = PerformanceMonitor_finish_ensemble_operation(ens, TRUE)
       ELSE /\ outcome' = "no_valid_responses"
            /\ ens' = PerformanceMonitor_finish_ensemble_operation(ens, FALSE)
            /\ UNCHANGED final
    /\ mainPc' = "done"
    /\ UNCHANGED <<now, cbVars, limiterVars, auxVars, stats, callVars, mode,
                   models, refinement, prompt, fetchSan, fetchRet, combined,
                   refineCalls>>

----------------------------------------------------------------------------
(* generate, the handler of POST /generate (src/src/web/app.py:46-109) *)

\* generate from its first line to the call of fetch_llm_responses: p is
\* the prompt of the form, ms and rm the models and the refinement model
\* of the configuration, keyOk tells whether an API key is configured.
\* The handler uses the rate limiter and the breakers as they are.
GenerateStart(ms, rm, p, keyOk) ==
    /\ mainPc = "idle"
    /\ mode' = "web"
    /\ models' = ms
    /\ refinement' = rm
    /\ ens' = NoEns
    /\ ResetRun
    /\ IF p = ""
       THEN /\ outcome' = "400 No prompt provided"
            /\ mainPc' = "done"
            /\ prompt' = ""
       ELSE IF ~keyOk
       THEN /\ outcome' = "500"
            /\ mainPc' = "done"
            /\ prompt' = ""
       ELSE IF ms = <<>>
       THEN /\ outcome' = "400 No models configured"
            /\ mainPc' = "done"
            /\ prompt' = ""
       ELSE /\ outcome' = "none"
            /\ mainPc' = "fetch"
            /\ prompt' = p
    /\ UNCHANGED <<now, cbVars, limiterVars, auxVars, stats>>

\* generate after fetch_llm_responses: an exception of it or of
\* combine_responses reaches `except Exception` and becomes the 500
\* response; otherwise refine_response is called
GenerateAfterFetch ==
    /\ mainPc = "fetched"
    /\ mode = "web"
    /\ IF fetchRet.kind = "raised"
          \/ combine_responses_raises(models, fetchRet.list)
       THEN /\ outcome' = "500"
            /\ mainPc' = "done"
            /\ UNCHANGED <<call, combined, refineCalls>>
       ELSE /\ combined' = combine_responses(<<prompt>>, models,
                                             fetchRet.list)
            /\ call' = [call EXCEPT ![0] =
                          NewCall(refinement, combined',
                                  DEFAULT_TIMEOUT * RefinementTimeoutFactor)]
            /\ refineCalls' = refineCalls + 1
            /\ mainPc' = "refine"
            /\ UNCHANGED outcome
    /\ UNCHANGED <<now, cbVars, limiterVars, auxVars, stats, gathered, order,
                   mode, models, refinement, prompt, fetchSan, fetchRet,
                   final, ens>>

\* generate after refine_response: the 200 response with the refined
\* answer, or the 500 response when refine_response raised
GenerateAfterRefine ==
    /\ mainPc = "refine"
    /\ mode = "web"
    /\ call[0].pc = "done"
    /\ IF ~RefinementFailed(call[0])
       THEN /\ final' = call[0].text
            /\ outcome' = "200"
       ELSE /\ outcome' = "500"
            /\ UNCHANGED final
    /\ mainPc' = "done"
    /\ UNCHANGED <<now, cbVars, limiterVars, auxVars, stats, callVars, mode,
                   models, refinement, prompt, fetchSan, fetchRet, combined,
                   refineCalls, ens>>

----------------------------------------------------------------------------
(* Direct calls of the CircuitBreaker methods of one breaker, in any order *)

CBBackends == {"a"}

CallCanExecute(b) ==
    /\ cb' = [cb EXCEPT ![b] = CircuitBreaker_can_execute(cb[b], now)]
    /\ cbRet' = CircuitBreaker_can_execute_ret(cb[b], now)
    /\ cbOp' = "can_execute"
    /\ cbPre' = cb[b]
    /\ UNCHANGED <<now, ensembleVars>>

CallRecordSuccess(b) ==
    /\ cb' = [cb EXCEPT ![b] = CircuitBreaker_record_success(cb[b])]
    /\ cbOp' = "record_success"
    /\ cbPre' = cb[b]
    /\ UNCHANGED <<now, cbRet, ensembleVars>>

CallRecordFailure(b) ==
    /\ cb[b].failure_count < MaxFailures
    /\ cb' = [cb EXCEPT ![b] = CircuitBreaker_record_failure(cb[b], now)]
    /\ cbOp' = "record_failure"
    /\ cbPre' = cb[b]
    /\ UNCHANGED <<now, cbRet, ensembleVars>>

\* the clock advances
TickSteps == {RecoveryTimeout \div 2, RecoveryTimeout \div 2 + 1}

Tick(d) ==
    /\ now + d <= MaxTime
    /\ now' = now + d
    /\ UNCHANGED <<cbVars, ensembleVars>>

----------------------------------------------------------------------------
(* Direct calls of the RateLimiter methods, as in tests/test_rate_limiter.py:
   tasks that call acquire concurrently, and record_success and
   record_failure in any order *)

\* requests_per_minute of the limiter under test
MaxPerMinute == 3

\* the other limits are those of the rate_limiter fixture
TestRequestsPerSecond == 2
TestBurstLimit == 3

TestRateLimitConfig ==
    [requests_per_minute |-> MaxPerMinute,
     requests_per_second |-> TestRequestsPerSecond,
     burst_limit |-> TestBurstLimit]

RLBackends == {"a", "b"}

\* the backends whose requests succeed and fail
RLFailing == {"a"}

\* the tasks that call acquire
RLCalls == {1, 2}

\* the task that calls acquire between successes and failures
BackoffCalls == {1}

\* acquire is called at most this many times while tasks acquire
\* concurrently
MaxAcquires == MaxPerMinute + 1

\* acquire is called at most this many times between successes and failures
MaxBackoffAcquires == 2

\* with-blocks of LoggingContext inside one another
MaxNesting == 2

\* requests finished per backend in the direct monitor calls
MaxRequests == 2

\* consecutive failures while tasks acquire concurrently
MaxBackoffs == 1

\* no RateLimiter method has been called directly (fails: the consecutive
\* failures of the backend before the call; failed_at: the time of the
\* latest record_failure that no record_success has followed, or 0)
NoOp ==
    [op |-> "none", model |-> "-", fails |-> 0, raised |-> FALSE,
     acquires |-> 0, failed_at |-> 0]

\* a task calls rate_limiter.acquire(m)
CallAcquire(c, m, cap) ==
    /\ call[c].pc \in {"idle", "done"}
    /\ rlOp.acquires < cap
    /\ EnterAcquire(c, [IdleCall EXCEPT !.op = "acquire", !.model = m])
    /\ rlOp' = [rlOp EXCEPT !.op = "acquire", !.model = m,
                            !.fails = rl[m].fails, !.raised = FALSE,
                            !.acquires = @ + 1]
    /\ UNCHANGED <<now, cbVars, rlConfig, runVars>>

\* rate_limiter.record_success(m)
CallLimiterSuccess(m) ==
    /\ rl' = [rl EXCEPT ![m] = RateLimiter_record_success(rl[m])]
    /\ rlOp' = [rlOp EXCEPT !.op = "record_success", !.model = m,
                            !.fails = rl[m].fails, !.raised = FALSE,
                            !.failed_at = 0]
    /\ UNCHANGED <<now, cbVars, lock, rlConfig, stats, callVars, runVars>>

\* rate_limiter.record_failure(m), up to cap consecutive failures and
\* for the call that overflows
CallLimiterFailure(m, cap) ==
    /\ \/ rl[m].fails < cap
       \/ rl[m].fails = OverflowExponent - 1
    /\ rl' = [rl EXCEPT ![m] = RateLimiter_record_failure(rl[m], now)]
    /\ rlOp' = [rlOp EXCEPT !.op = "record_failure", !.model = m,
                            !.fails = rl[m].fails,
                            !.raised = RateLimiter_record_failure_raises(rl[m]),
                            !.failed_at = now]
    /\ UNCHANGED <<now, cbVars, lock, rlConfig, stats, callVars, runVars>>

\* the clock advances while no task sleeps
RLTickSteps == {(MinuteWindowSec * Second) \div 2}

FrameTickSteps == {MinuteWindowSec * Second + 1}

RLTick(d) ==
    /\ Timers = {}
    /\ Tick(d)

----------------------------------------------------------------------------
(* Specifications *)

\* everything but the breakers and the limiter entries, after construction
\* of a RateLimiter with configuration cfg
InitRestWith(cfg) ==
    /\ now = StartTime
    /\ cbRet = TRUE
    /\ cbOp = "none"
    /\ cbPre = CircuitBreaker_init
    /\ lock = [b \in Backends |-> NoCall]
    /\ rlOp = NoOp
    /\ rlConfig = cfg
    /\ stats = [b \in Backends |-> ModelStats_init]
    /\ call = [c \in Calls |-> IdleCall]
    /\ gathered = <<>>
    /\ order = <<>>
    /\ mode = "none"
    /\ mainPc = "idle"
    /\ models = <<>>
    /\ refinement = "a"
    /\ prompt = ""
    /\ fetchSan = "none"
    /\ fetchRet = NoRet
    /\ combined = <<>>
    /\ final = <<>>
    /\ outcome = "none"
    /\ refineCalls = 0
    /\ ens = NoEns
    /\ logContext = NoContext
    /\ logStack = <<>>
    /\ monLock = FALSE
    /\ monCall = NoMonCall

\* the module-level rate_limiter = RateLimiter()
InitRest == InitRestWith(DefaultRateLimitConfig)

\* the process right after start
InitFresh ==
    /\ cb = [b \in Backends |-> CircuitBreaker_init]
    /\ InitRest
    /\ rl = [b \in Backends |-> RateLimiter_init]

\* the breaker and the limiter entry of a backend after n consecutive
\* failed requests, the last one at time t
AfterFailures(n, t) ==
    IF n = 0
    THEN [cb |-> CircuitBreaker_init, rl |-> RateLimiter_init]
    ELSE [cb |-> [state |-> IF n >= FailureThreshold THEN "open" ELSE "closed",
                  failure_count |-> n, last_failure_time |-> t],
          rl |-> [times |-> <<t>>, backoff |-> t + BackoffTime(n),
                  fails |-> n, tracked |-> TRUE]]

\* more than the recovery timeout ago
LongAgo == StartTime - RecoveryTimeout - 1

\* What a call can find for its backend: nothing yet; one failure below the
\* threshold just now; the threshold reached just now; the threshold
\* reached long ago; one failure below the float overflow long ago.
RunStates ==
    {AfterFailures(0, StartTime),
     AfterFailures(FailureThreshold - 1, StartTime),
     AfterFailures(FailureThreshold, StartTime),
     AfterFailures(FailureThreshold, LongAgo),
     AfterFailures(OverflowExponent - 1, LongAgo)}

\* backend a is in state s, the other backends are new
InitWith(s) ==
    /\ cb = [b \in Backends |->
               IF b = "a" THEN s.cb ELSE CircuitBreaker_init]
    /\ rl = [b \in Backends |->
               IF b = "a" THEN s.rl ELSE RateLimiter_init]
    /\ InitRest

\* the CircuitBreaker driven directly
NextCB ==
    \/ \E b \in CBBackends : CallCanExecute(b)
    \/ \E b \in CBBackends : CallRecordSuccess(b)
    \/ \E b \in CBBackends : CallRecordFailure(b)
    \/ \E d \in TickSteps : Tick(d)

SpecCB == InitFresh /\ [][NextCB]_vars

\* a new RateLimiter with the limits of the tests
InitRL ==
    /\ cb = [b \in Backends |-> CircuitBreaker_init]
    /\ rl = [b \in Backends |-> RateLimiter_init]
    /\ InitRestWith(TestRateLimitConfig)

\* the RateLimiter driven directly: tasks acquire concurrently while
\* requests fail
NextRL ==
    \/ \E c \in RLCalls, m \in RLBackends : CallAcquire(c, m, MaxAcquires)
    \/ \E c \in RLCalls : AcquireWake(c)
    \/ \E c \in RLCalls : LockGranted(c)
    \/ \E m \in RLFailing : CallLimiterFailure(m, MaxBackoffs)
    \/ \E d \in RLTickSteps : RLTick(d)
    \/ TickToTimer

SpecRL == InitRL /\ [][NextRL]_vars

\* the same, where the event loop runs every task that can run (a sleep
\* that is over ends, a released lock is handed to the first waiter) and
\* time advances to the end of the next sleep
FairRL ==
    /\ \A c \in RLCalls : WF_vars(AcquireWake(c)) /\ WF_vars(LockGranted(c))
    /\ WF_vars(TickToTimer)

SpecRLFair == InitRL /\ [][NextRL]_vars /\ FairRL

\* the RateLimiter driven directly: every method, for two backends, with
\* pauses longer than the minute window
NextFrame ==
    \/ \E c \in RLCalls, m \in RLBackends : CallAcquire(c, m, MaxAcquires)
    \/ \E c \in RLCalls : AcquireWake(c)
    \/ \E c \in RLCalls : LockGranted(c)
    \/ \E m \in RLFailing : CallLimiterSuccess(m)
    \/ \E m \in RLFailing : CallLimiterFailure(m, MaxBackoffs)
    \/ \E d \in FrameTickSteps : RLTick(d)
    \/ TickToTimer

SpecFrame == InitRL /\ [][NextFrame]_vars

\* a RateLimiter whose backend a is new or has failed up to one failure
\* below the float overflow
InitBackoff ==
    /\ cb = [b \in Backends |-> CircuitBreaker_init]
    /\ rl \in {[b \in Backends |->
                   IF b = "a" THEN s.rl ELSE RateLimiter_init] :
                s \in {AfterFailures(0, StartTime),
                        AfterFailures(OverflowExponent - 1, LongAgo)}}
    /\ InitRestWith(TestRateLimitConfig)

\* the RateLimiter driven directly: successes and failures of one backend
NextBackoff ==
    \/ \E c \in BackoffCalls, m \in RLFailing :
          CallAcquire(c, m, MaxBackoffAcquires)
    \/ \E c \in BackoffCalls : AcquireWake(c)
    \/ \E m \in RLFailing : CallLimiterSuccess(m)
    \/ \E m \in RLFailing : CallLimiterFailure(m, MaxFailures)
    \/ \E d \in RLTickSteps : RLTick(d)
    \/ TickToTimer

SpecBackoff == InitBackoff /\ [][NextBackoff]_vars

\* one call of fetch_single_response finds any of these states
InitCall == \E s \in RunStates : InitWith(s)

NextCall ==
    \/ \E p \in CallPrompts : CallDirect("a", p)
    \/ Start(0)
    \/ AcquireWake(0)
    \/ \E o \in Outcomes(0) : Respond(0, o)
    \/ TimeoutFire(0)
    \/ RetryWake(0)
    \/ TickToTimer

SpecCall == InitCall /\ [][NextCall]_vars

\* a run finds backend a new or with its breaker just opened
InitRun ==
    \E s \in {AfterFailures(0, StartTime),
               AfterFailures(FailureThreshold, StartTime)} : InitWith(s)

\* direct calls of fetch_llm_responses: the fan-out
NextFetch ==
    \/ \E ms \in ModelLists, p \in FetchPrompts : FetchDirect(ms, p)
    \/ FetchStart
    \/ \E c \in Calls : Start(c)
    \/ \E c \in Calls : \E o \in FetchOutcomes(c) : Respond(c, o)
    \/ \E c \in Calls : TimeoutFire(c)
    \/ \E c \in Calls : RetryWake(c)
    \/ TickToTimer
    \/ GatherDone
    \/ FetchReturn

SpecFetch == InitRun /\ [][NextFetch]_vars

\* backend a is new or one failure below the threshold, in backoff
InitFanout ==
    \E s \in {AfterFailures(0, StartTime),
               AfterFailures(FailureThreshold - 1, StartTime)} : InitWith(s)

\* the fan-out with the waits of the rate limiter
NextFanout ==
    \/ \E ms \in ModelLists, p \in FetchPrompts : FetchDirect(ms, p)
    \/ FetchStart
    \/ \E c \in Calls : Start(c)
    \/ \E c \in Calls : AcquireWake(c)
    \/ \E c \in Calls : \E o \in FetchOutcomes(c) : Respond(c, o)
    \/ \E c \in Calls : TimeoutFire(c)
    \/ \E c \in Calls : RetryWake(c)
    \/ TickToTimer
    \/ GatherDone
    \/ FetchReturn

\* the event loop runs every task that can run, and time advances
FairFanout ==
    /\ \A c \in Calls :
          /\ WF_vars(Start(c))
          /\ WF_vars(AcquireWake(c))
          /\ WF_vars(TimeoutFire(c))
          /\ WF_vars(RetryWake(c))
    /\ WF_vars(TickToTimer)
    /\ WF_vars(FetchStart)
    /\ WF_vars(GatherDone)
    /\ WF_vars(FetchReturn)

SpecFanout == InitFanout /\ [][NextFanout]_vars /\ FairFanout

\* runs of main
NextMain ==
    \/ \E ms \in ModelLists, rm \in RefinementModels, p \in Prompts,
          keyOk \in BOOLEAN : MainStart(ms, rm, p, keyOk)
    \/ FetchStart
    \/ \E c \in Calls : Start(c)
    \/ \E c \in Calls : AcquireWake(c)
    \/ \E c \in Calls : \E o \in MainOutcomes(c) : Respond(c, o)
    \/ TickToTimer
    \/ GatherDone
    \/ MainAfterFetch
    \/ MainAfterRefine

SpecMain == InitRun /\ [][NextMain]_vars

\* requests to POST /generate
NextWeb ==
    \/ \E ms \in ModelLists, rm \in RefinementModels, p \in FetchPrompts,
          keyOk \in BOOLEAN : GenerateStart(ms, rm, p, keyOk)
    \/ FetchStart
    \/ \E c \in Calls : Start(c)
    \/ \E c \in Calls : AcquireWake(c)
    \/ \E c \in Calls : \E o \in MainOutcomes(c) : Respond(c, o)
    \/ TickToTimer
    \/ GatherDone
    \/ GenerateAfterFetch
    \/ GenerateAfterRefine

SpecWeb == InitRun /\ [][NextWeb]_vars

\* The end-to-end example: backends [a, b, c] with refinement backend a,
\* where a and c answer X and Y and b never answers.
ExampleModels == <<"a", "b", "c">>

\* the tasks of backend b
ExampleSilent == {c \in 1..Len(ExampleModels) : ExampleModels[c] = "b"}

ExampleOutcomes(c) ==
    IF c = 0 THEN MainOutcomes(0)
    ELSE IF c \in ExampleSilent THEN {}
    ELSE {[kind |-> "content", text |-> Answer(c)]}

NextExample ==
    \/ \E p \in {q \in Prompts : sanitize_prompt(q).ok} :
          MainStart(ExampleModels, "a", p, TRUE)
    \/ FetchStart
    \/ \E c \in Calls : Start(c)
    \/ \E c \in Calls : \E o \in ExampleOutcomes(c) : Respond(c, o)
    \/ \E c \in ExampleSilent : TimeoutFire(c)
    \/ \E c \in Calls : RetryWake(c)
    \/ TickToTimer
    \/ GatherDone
    \/ MainAfterFetch
    \/ MainAfterRefine

SpecExample == InitFresh /\ [][NextExample]_vars

\* the identifiers of the direct calls and of the with-blocks
DirectCorrelationIds == {"original-123"}

DirectRequestIds == {"original-req"}

WithCorrelationIds == {None, "ctx-123"}

WithRequestIds == {None, "req-456"}

CallSetCorrelationId(id) ==
    /\ logContext' = set_correlation_id(logContext, id)
    /\ UNCHANGED <<now, cbVars, limiterVars, stats, callVars, mainVars,
                   logStack, monVars>>

CallSetRequestId(id) ==
    /\ logContext' = set_request_id(logContext, id)
    /\ UNCHANGED <<now, cbVars, limiterVars, stats, callVars, mainVars,
                   logStack, monVars>>

CallClearContext ==
    /\ logContext' = clear_context
    /\ UNCHANGED <<now, cbVars, limiterVars, stats, callVars, mainVars,
                   logStack, monVars>>

\* `with LoggingContext(correlation_id, request_id):` is entered
WithEnter(correlation_id, request_id) ==
    /\ Len(logStack) < MaxNesting
    /\ logStack' = Append(logStack,
          LoggingContext_entered(logContext, correlation_id, request_id))
    /\ logContext' = LoggingContext_enter(logContext, correlation_id,
                                          request_id)
    /\ UNCHANGED <<now, cbVars, limiterVars, stats, callVars, mainVars,
                   monVars>>

\* the innermost with-block is left
WithExit ==
    /\ logStack # <<>>
    /\ logContext' = LoggingContext_exit(logContext,
                         logStack[Len(logStack)].old_context)
    /\ logStack' = SubSeq(logStack, 1, Len(logStack) - 1)
    /\ UNCHANGED <<now, cbVars, limiterVars, stats, callVars, mainVars,
                   monVars>>

\* the logging context driven directly: identifiers are set and cleared
\* outside and inside nested with-blocks
NextLog ==
    \/ \E id \in DirectCorrelationIds : CallSetCorrelationId(id)
    \/ \E id \in DirectRequestIds : CallSetRequestId(id)
    \/ CallClearContext
    \/ \E c \in WithCorrelationIds, r \in WithRequestIds : WithEnter(c, r)
    \/ WithExit

SpecLog == InitFresh /\ [][NextLog]_vars

\* the backends of the direct monitor calls
MonBackends == {"a", "b"}

\* monitor.finish_request for a request of backend m, from any thread
CallFinishRequest(m, success) ==
    /\ ~monLock
    /\ stats[m].total_requests < MaxRequests
    /\ stats' = [stats EXCEPT ![m] =
                   PerformanceMonitor_finish_request(@, success)]
    /\ monCall' = [op |-> "finish_request", arg |-> m, pc |-> "returned",
                   ret |-> EmptyDict]
    /\ UNCHANGED <<now, cbVars, limiterVars, callVars, mainVars, logVars,
                   monLock>>

\* monitor.get_model_stats(model), model = None for all models
CallGetModelStats(model) ==
    /\ ~monLock
    /\ IF model # None
       THEN /\ monCall' = [op |-> "get_model_stats", arg |-> model,
                           pc |-> "returned",
                           ret |-> PerformanceMonitor_get_model_stats(
                                      stats, model)]
            /\ UNCHANGED monLock
       ELSE IF PerformanceMonitor_get_model_stats_blocks(stats)
       THEN /\ monCall' = [op |-> "get_model_stats", arg |-> None,
                           pc |-> "blocked", ret |-> EmptyDict]
            /\ monLock' = TRUE
       ELSE /\ monCall' = [op |-> "get_model_stats", arg |-> None,
                           pc |-> "returned", ret |-> EmptyDict]
            /\ UNCHANGED monLock
    /\ UNCHANGED <<now, cbVars, limiterVars, stats, callVars, mainVars,
                   logVars>>

\* monitor.get_health_status(): get_model_stats() first
CallGetHealthStatus ==
    /\ ~monLock
    /\ IF PerformanceMonitor_get_model_stats_blocks(stats)
       THEN /\ monCall' = [op |-> "get_health_status", arg |-> None,
                           pc |-> "blocked", ret |-> EmptyDict]
            /\ monLock' = TRUE
       ELSE /\ monCall' = [op |-> "get_health_status", arg |-> None,
                           pc |-> "returned", ret |-> HealthOfEmptyMonitor]
            /\ UNCHANGED monLock
    /\ UNCHANGED <<now, cbVars, limiterVars, stats, callVars, mainVars,
                   logVars>>

\* the PerformanceMonitor driven directly: requests are finished and the
\* statistics are read
NextMonitor ==
    \/ \E m \in MonBackends, success \in BOOLEAN :
          CallFinishRequest(m, success)
    \/ \E model \in MonBackends \cup {None} : CallGetModelStats(model)
    \/ CallGetHealthStatus

SpecMonitor == InitFresh /\ [][NextMonitor]_vars

----------------------------------------------------------------------------
(* Claims about fetch_single_response *)

\* C1: fetch_single_response never raises to its caller: for every breaker
\* state, every rate-limiter outcome and every per-attempt backend outcome
\* the call returns a string, and on every failing path that string begins
\* with the marker "Error:".
C1_NeverRaises ==
    call[0].pc = "done" =>
        /\ call[0].kind = "str"
        /\ (~call[0].success => StartsWithError(call[0].text))

----------------------------------------------------------------------------
(* Claims about fetch_llm_responses *)

\* the result of task i as fetch_single_response left it
TaskResult(i) == [kind |-> call[i].kind, text |-> call[i].text]

\* task i ended with a valid answer
TaskValid(i) ==
    /\ call[i].pc = "done"
    /\ call[i].kind = "str"
    /\ ~StartsWithError(call[i].text)

\* C2: fetch_llm_responses returns a list with exactly one entry per input
\* backend, and entry i is the outcome of backends[i], for every order in
\* which the concurrent per-backend tasks complete.
C2_OrderPreserved ==
    fetchRet.kind = "list" =>
        /\ Len(fetchRet.list) = Len(models)
        /\ fetchSan = "ok" =>
              \A i \in 1..Len(models) :
                 /\ call[i].model = models[i]
                 /\ call[i].pc = "done"
                 /\ fetchRet.list[i] = ProcessResponse(models[i], TaskResult(i))

\* the second task completed first and both answers are at their positions
C2_Witness ==
    /\ fetchRet.kind = "list"
    /\ models = <<"a", "b">>
    /\ order = <<2, 1>>
    /\ fetchRet.list = <<Answer(1), Answer(2)>>

\* C3: a failure of one backend's task (an error-tagged result, a per-call
\* timeout, or an exception raised inside the task) is converted in place
\* into an "Error:" string for that backend only: it never cancels or
\* aborts the sibling tasks, and every sibling's own result is still
\* returned at its position.
C3_FailureIsolated ==
    fetchRet.kind # "none" /\ fetchSan = "ok" =>
        /\ \A i \in 1..Len(models) : call[i].pc = "done"
        /\ (\E i \in 1..Len(models) : TaskValid(i)) => fetchRet.kind = "list"
        /\ fetchRet.kind = "list" =>
              \A i \in 1..Len(models) :
                 IF TaskValid(i)
                 THEN fetchRet.list[i] = call[i].text
                 ELSE StartsWithError(fetchRet.list[i])

\* one task raised, its sibling answered, and both are in the list
C3_Witness ==
    /\ fetchRet.kind = "list"
    /\ \E i, j \in 1..Len(models) :
          /\ call[i].kind = "exc"
          /\ StartsWithError(fetchRet.list[i])
          /\ TaskValid(j)
          /\ fetchRet.list[j] = Answer(j)

\* C5 as stated: every call of fetch_llm_responses that returns normally
\* returns a list with at least one non-error entry.
C5_ReturnHasValidEntry ==
    fetchRet.kind = "list" =>
        \E i \in 1..Len(fetchRet.list) : ~StartsWithError(fetchRet.list[i])

\* C5 amended: when the prompt passes sanitization, a normal return has at
\* least one non-error entry and the call raises whenever no backend
\* succeeded (the empty backend list included); when the prompt fails
\* sanitization the call returns one "Error:" entry per backend without
\* calling any backend.
C5_ReturnAfterSanitization ==
    /\ fetchRet.kind = "list" /\ fetchSan = "ok" =>
          \E i \in 1..Len(fetchRet.list) : ~StartsWithError(fetchRet.list[i])
    /\ fetchRet.kind # "none" /\ fetchSan = "ok"
         /\ (\A i \in 1..Len(models) : ~TaskValid(i))
         => fetchRet.kind = "raised"
    /\ fetchSan = "failed" =>
          /\ fetchRet.kind = "list"
          /\ Len(fetchRet.list) = Len(models)
          /\ \A i \in 1..Len(models) :
                StartsWithError(fetchRet.list[i]) /\ call[i].pc = "idle"

\* a rejected prompt has been answered with an all-error list
C5_Witness ==
    /\ mode = "fetch"
    /\ mainPc = "done"
    /\ fetchSan = "failed"
    /\ fetchRet.kind = "list"
    /\ Len(fetchRet.list) >= 1
    /\ \A i \in 1..Len(fetchRet.list) : StartsWithError(fetchRet.list[i])

----------------------------------------------------------------------------
(* Claims about main *)

\* sub occurs in s as a run of consecutive tokens
Occurs(sub, s) ==
    \E k \in 1..(Len(s) - Len(sub) + 1) : SubSeq(s, k, k + Len(sub) - 1) = sub

\* the first position at which sub occurs in s
FirstPos(sub, s) ==
    Min({k \in 1..(Len(s) - Len(sub) + 1) :
           SubSeq(s, k, k + Len(sub) - 1) = sub})

\* the number of tokens tok in s
CountToken(tok, s) == Cardinality({k \in 1..Len(s) : s[k] = tok})

\* the label of backend m in the synthesis prompt
Label(m) == <<"(from", m, "):">>

RECURSIVE JoinedValid(_, _)
JoinedValid(rs, i) ==
    IF i > Len(rs) THEN <<>>
    ELSE IF StartsWithError(rs[i]) THEN JoinedValid(rs, i + 1)
    ELSE IF JoinedValid(rs, i + 1) = <<>> THEN rs[i]
    ELSE rs[i] \o <<"\n\n">> \o JoinedValid(rs, i + 1)

\* the refinement call of the run has failed
RefinementCallFailed ==
    /\ refineCalls = 1
    /\ call[0].pc = "done"
    /\ call[0].kind = "exc" \/ StartsWithError(call[0].text)

\* C6: when at least one backend answer is valid and the refinement call
\* fails, main returns as final text the valid answers only, in backend
\* order, joined together, and issues no further backend call after the
\* failed refinement; with exactly one valid answer the final text is that
\* answer unchanged.
C6_Fallback ==
    /\ mode = "main"
    /\ mainPc = "done"
    /\ RefinementCallFailed
    /\ \E i \in 1..Len(fetchRet.list) : ~StartsWithError(fetchRet.list[i])
    => /\ outcome = "completed"
       /\ final = JoinedValid(fetchRet.list, 1)
       /\ \A i \in 1..Len(fetchRet.list) :
             (\A j \in 1..Len(fetchRet.list) :
                 j # i <=> StartsWithError(fetchRet.list[j]))
             => final = fetchRet.list[i]
       /\ refineCalls = 1
       /\ \A c \in Calls : call[c].pc \in {"idle", "done"}

\* the refinement failed after one of two backends had failed, and the
\* final text is the answer of the other
C6_Witness ==
    /\ mode = "main"
    /\ mainPc = "done"
    /\ RefinementCallFailed
    /\ Len(fetchRet.list) = 2
    /\ StartsWithError(fetchRet.list[1])
    /\ final = Answer(2)

ExampleAnswered ==
    /\ models = ExampleModels
    /\ \A i \in {1, 3} :
          call[i].pc = "done" /\ call[i].kind = "str"
          /\ call[i].text = Answer(i)

\* C8: end to end, with backends [a, b, c] and refinement backend a, where
\* b times out on every attempt and a and c answer X and Y: the fan-out
\* settles with results [X, error, Y], exactly one refinement call is
\* issued to a with a prompt built from X and Y only, and when that call
\* succeeds the final answer is exactly the refinement call's output.
C8_EndToEnd ==
    /\ refineCalls <= 1
    /\ ExampleAnswered /\ mainPc \in {"fetched", "refine", "done"} =>
          /\ fetchRet.kind = "list"
          /\ Len(fetchRet.list) = 3
          /\ fetchRet.list[1] = <<"X">>
          /\ StartsWithError(fetchRet.list[2])
          /\ fetchRet.list[3] = <<"Y">>
    /\ ExampleAnswered /\ mainPc \in {"refine", "done"} =>
          /\ refineCalls = 1
          /\ call[0].model = "a"
          /\ call[0].prompt = combined
          /\ Occurs(Label("a") \o <<"X">>, combined)
          /\ Occurs(Label("c") \o <<"Y">>, combined)
          /\ ~Occurs(Label("b"), combined)
          /\ CountToken("(from", combined) = 2
          /\ CountToken("Error:", combined) = 0
    /\ ExampleAnswered /\ mainPc = "done"
         /\ call[0].kind = "str" /\ ~StartsWithError(call[0].text) =>
          /\ outcome = "completed"
          /\ final = call[0].text

\* the example has run to its end with a successful refinement
C8_Witness ==
    /\ ExampleAnswered
    /\ mainPc = "done"
    /\ fetchRet.list[1] = <<"X">>
    /\ call[2].issued = DEFAULT_MAX_RETRIES
    /\ StartsWithError(fetchRet.list[2])
    /\ fetchRet.list[3] = <<"Y">>
    /\ refineCalls = 1
    /\ call[0].success
    /\ final = Answer(0)

----------------------------------------------------------------------------
(* Claims about the CircuitBreaker *)

\* C9: after failure_threshold consecutive record_failure calls, can_execute
\* returns false until the recovery timeout has elapsed since the recorded
\* failure, then returns true exactly once: a can_execute call made while
\* the breaker is half-open (trial permitted, outcome not yet recorded)
\* returns false.
C9_TrueExactlyOnce ==
    [][\A b \in CBBackends :
          CallCanExecute(b) =>
             /\ (cb[b].state = "open"
                  /\ now - cb[b].last_failure_time <= RecoveryTimeout
                    => cbRet' = FALSE)
             /\ (cb[b].state = "half-open" => cbRet' = FALSE)]_vars

\* C10: record_success on a closed or half-open breaker leaves the failure
\* counter at 0 and the state closed, whatever calls preceded it.
C10_SuccessResets ==
    [][\A b \in CBBackends :
          CallRecordSuccess(b) /\ cb[b].state \in {"closed", "half-open"} =>
             cb'[b].failure_count = 0 /\ cb'[b].state = "closed"]_vars

\* a half-open breaker with a full failure counter has just been closed by
\* record_success
C10_Witness ==
    /\ cbOp = "record_success"
    /\ cbPre.state = "half-open"
    /\ cbPre.failure_count >= FailureThreshold
    /\ cb["a"].state = "closed"
    /\ cb["a"].failure_count = 0

\* C11: in every reachable half-open state, a single record_failure moves
\* the breaker back to open and sets the last-failure timestamp to the
\* current time, so that can_execute is false again for a full recovery
\* timeout.
C11_HalfOpenFailureReopens ==
    [][\A b \in CBBackends :
          CallRecordFailure(b) /\ cb[b].state = "half-open" =>
             /\ cb'[b].state = "open"
             /\ cb'[b].last_failure_time = now
             /\ \A t \in now..(now + RecoveryTimeout) :
                   ~CircuitBreaker_can_execute_ret(cb'[b], t)]_vars

\* a half-open breaker has just been reopened by record_failure
C11_Witness ==
    /\ cbOp = "record_failure"
    /\ cbPre.state = "half-open"
    /\ cb["a"].state = "open"
    /\ cb["a"].last_failure_time = now
    /\ now > StartTime

\* the recorded request timestamps of backend m
RequestTimes(m) == rl[m].times

\* the timestamps of backend m in the 60 seconds that end at time t
InWindow(m, t) ==
    {k \in 1..Len(RequestTimes(m)) :
        RequestTimes(m)[k] > t - MinuteWindowSec * Second}

\* C12: for every backend and any sequence of sequential or concurrent
\* acquire calls, the acquisition that comes requests_per_minute
\* acquisitions after another one is not recorded before that one's
\* timestamp plus 60 seconds; equivalently, no trailing window of 60
\* seconds holds more than requests_per_minute recorded timestamps of one
\* backend.
C12_MinuteLimit ==
    \A m \in RLBackends :
       /\ \A i, j \in 1..Len(RequestTimes(m)) :
             j - i >= rlConfig.requests_per_minute =>
                RequestTimes(m)[j] >=
                   RequestTimes(m)[i] + MinuteWindowSec * Second
       /\ \A t \in {now} \cup {RequestTimes(m)[k] :
                                   k \in 1..Len(RequestTimes(m))} :
             Cardinality(InWindow(m, t) \ {k \in 1..Len(RequestTimes(m)) :
                                              RequestTimes(m)[k] > t})
                <= rlConfig.requests_per_minute

C12_Witness ==
    /\ Len(RequestTimes("a")) = rlConfig.requests_per_minute + 1
    /\ RequestTimes("a")[Len(RequestTimes("a"))] >=
          RequestTimes("a")[1] + MinuteWindowSec * Second
    /\ RequestTimes("a")[rlConfig.requests_per_minute] <
          RequestTimes("a")[1] + MinuteWindowSec * Second
    /\ \A c \in RLCalls : call[c].pc = "done" /\ call[c].model = "a"

\* C13: record_failure increments the consecutive-failure counter of the
\* backend by one and sets backoff-until to the current time plus
\* min(backoff_multiplier ^ consecutive_failures, max_backoff); the interval
\* does not decrease with the number of consecutive failures and never
\* exceeds max_backoff.
C13_FailureSetsBackoff ==
    [][\A m \in RLFailing :
          CallLimiterFailure(m, MaxFailures) =>
             /\ rl'[m].fails = rl[m].fails + 1
             /\ rl'[m].backoff = now + BackoffTime(rl'[m].fails)
             /\ rl'[m].backoff - now >= BackoffTime(rl[m].fails)
             /\ rl'[m].backoff - now <= MaxBackoffSec * Second]_vars

LimiterStep(m) ==
    \/ \E c \in RLCalls : CallAcquire(c, m, MaxAcquires)
    \/ \E c \in RLCalls :
          call[c].model = m /\ (AcquireWake(c) \/ LockGranted(c))
    \/ CallLimiterSuccess(m)
    \/ CallLimiterFailure(m, MaxBackoffs)

\* where a call of acquire(m) stands after its first step, by the limiter
\* state of m alone
AcquireEntry(m) ==
    LET stop == AcquireStop(1, [rl[m] EXCEPT !.times = Prune(@, now)],
                            now, now, rlConfig)
    IN  IF lock[m] # NoCall THEN "lock"
        ELSE IF stop.pc = "record" THEN "done"
        ELSE stop.pc

\* backend m is at its per-minute or per-second limit
AtLimit(m) ==
    \/ MinuteWait(Prune(rl[m].times, now), now, rlConfig) > 0
    \/ SecondWait(Prune(rl[m].times, now), now, rlConfig) > 0

\* C15: the limiter state is independent per backend: acquire,
\* record_success and record_failure on one backend leave the timestamps,
\* the backoff time and the consecutive-failure counter of another backend
\* unchanged, and an acquire on a backend is never delayed because another
\* backend is at its limit, in backoff or has its lock held.
C15_BackendsIndependent ==
    [][\A m \in RLBackends :
          /\ LimiterStep(m) =>
                \A b \in Backends \ {m} : rl'[b] = rl[b] /\ lock'[b] = lock[b]
          /\ \A c \in RLCalls :
                CallAcquire(c, m, MaxAcquires) =>
                   /\ call'[c].pc = AcquireEntry(m)
                   /\ (rl[m] = RateLimiter_init /\ lock[m] = NoCall) =>
                         /\ call'[c].pc = "done"
                         /\ rl'[m].times = <<now>>]_vars

C15_Witness ==
    /\ rlOp.op = "acquire"
    /\ rlOp.model = "b"
    /\ rl["b"].times = <<now>>
    /\ \E c \in RLCalls : call[c].model = "b" /\ call[c].pc = "done"
    /\ AtLimit("a")
    /\ IsBackingOff(rl["a"], now)
    /\ lock["a"] # NoCall

\* the breaker of backend m refuses execution at the current time
Refuses(m) ==
    /\ cb[m].state = "open"
    /\ now - cb[m].last_failure_time <= RecoveryTimeout

\* C16: when the circuit breaker of the backend refuses execution,
\* fetch_single_response returns an error-tagged result immediately: it
\* issues no backend call, does not call RateLimiter.acquire (no timestamp
\* is recorded and no time passes), and leaves the failure counters of the
\* breaker and of the limiter unchanged.
C16_RefusedFastFail ==
    [][\A c \in Calls :
          Start(c) /\ Refuses(call[c].model) =>
             /\ call'[c].pc = "done"
             /\ call'[c].kind = "str"
             /\ StartsWithError(call'[c].text)
             /\ call'[c].issued = 0
             /\ now' = now
             /\ rl' = rl
             /\ lock' = lock
             /\ cb' = cb]_vars

C16_Witness ==
    /\ call[0].pc = "done"
    /\ call[0].text =
          ErrorString(<<"Circuit breaker open for model", call[0].model>>)
    /\ call[0].issued = 0
    /\ Refuses(call[0].model)
    /\ rl[call[0].model] = AfterFailures(FailureThreshold, StartTime).rl

\* an exception of the client that is not retried: no timeout, and neither
\* "rate limit" nor "timeout" in its message
NonRetryable(o) == o.kind = "error" /\ ~RetryablePhrased(o.text)

\* C17: an error that is neither a timeout nor phrased as a rate limit or
\* a timeout is not retried: at whichever attempt it occurs, the call
\* records the failure, finishes its request metrics with success = false
\* and returns an error-tagged string that contains the error text, without
\* issuing any further backend call.
C17_NonRetryableEnds ==
    [][\A c \in Calls : \A o \in Outcomes(c) :
          /\ Respond(c, o)
          /\ NonRetryable(o)
          /\ ~RateLimiter_record_failure_raises(rl[call[c].model])
          => /\ rl'[call[c].model].fails = rl[call[c].model].fails + 1
             /\ cb'[call[c].model].failure_count =
                   cb[call[c].model].failure_count + 1
             /\ call'[c].pc = "done"
             /\ call'[c].kind = "str"
             /\ call'[c].text = ErrorString(o.text)
             /\ ~call'[c].success
             /\ call'[c].finished = 1
             /\ call'[c].issued = call[c].issued]_vars

\* the request of call c fails transiently in this step: the asyncio
\* timeout fires, or the client raises an error phrased as a rate limit or
\* a timeout
TransientFailure(c) ==
    \/ TimeoutFire(c)
    \/ \E o \in Outcomes(c) :
          o.kind = "error" /\ RetryablePhrased(o.text) /\ Respond(c, o)

\* C18: a transient failure at an attempt after which attempts remain
\* makes the call sleep and then start another attempt, without recording
\* a failure on the rate limiter or on the circuit breaker; a transient
\* failure is recorded only when it is the last attempt that fails; and one
\* call never issues more than DEFAULT_MAX_RETRIES backend calls.
C18_TransientRetried ==
    [][\A c \in Calls :
          /\ TransientFailure(c) /\ call[c].attempt < DEFAULT_MAX_RETRIES - 1
             => /\ call'[c].pc = "sleep_retry"
                /\ call'[c].timer > now
                /\ rl' = rl
                /\ cb' = cb
          /\ TransientFailure(c) /\ (rl' # rl \/ cb' # cb)
             => call[c].attempt = DEFAULT_MAX_RETRIES - 1
          /\ RetryWake(c)
             => /\ call'[c].pc = "call"
                /\ call'[c].attempt = call[c].attempt + 1
                /\ call'[c].issued = call[c].issued + 1
                /\ rl' = rl
                /\ cb' = cb
          /\ call'[c].issued <= DEFAULT_MAX_RETRIES]_vars

C18_Witness ==
    /\ call[0].pc = "call"
    /\ call[0].attempt = DEFAULT_MAX_RETRIES - 1
    /\ call[0].issued = DEFAULT_MAX_RETRIES
    /\ rl[call[0].model].fails = 0
    /\ cb[call[0].model].failure_count = 0
    /\ now = StartTime + RetryDelay(0) +
               (DEFAULT_TIMEOUT + TimeoutBuffer) * Second + RetryDelay(1)

\* C19: the sleep before retry k + 1 (after attempt k, k from 0) lasts
\* DEFAULT_RETRY_DELAY * 2^k seconds; the delays of the consecutive retries
\* of one call never decrease, and every delay slept is at most max_backoff.
C19_RetryDelays ==
    \A c \in Calls :
       LET slept == call[c].slept IN
       /\ \A i \in 1..Len(slept) :
             /\ slept[i].delay =
                   DEFAULT_RETRY_DELAY * Pow(2, slept[i].attempt) * Second
             /\ slept[i].delay <= MaxBackoffSec * Second
       /\ \A i, j \in 1..Len(slept) :
             i < j => slept[i].delay <= slept[j].delay
       /\ call[c].pc = "sleep_retry" =>
             call[c].timer - slept[Len(slept)].delay <= now

C19_Witness ==
    /\ Len(call[0].slept) = DEFAULT_MAX_RETRIES - 1
    /\ call[0].slept[1].delay < call[0].slept[2].delay
    /\ call[0].pc = "done"
    /\ now >= StartTime + call[0].slept[1].delay + call[0].slept[2].delay

\* some backend of the run returned a valid answer
SomeValid == \E i \in 1..Len(models) : TaskValid(i)

\* a finished run: an error outcome after the fan-out has one of the
\* causes of the claim, and a valid answer leads to a final answer
C20_Finished ==
    mode = "main" /\ mainPc = "done" =>
       /\ outcome \in {"all_backends_failed", "no_usable_responses",
                        "no_valid_responses"} =>
             /\ ~SomeValid
             /\ \/ fetchSan = "failed"
                \/ /\ fetchSan = "ok"
                   /\ \A i \in 1..Len(models) : call[i].pc = "done"
       /\ SomeValid =>
             /\ outcome \in {"completed", "single_response"}
             /\ final # <<>>
             /\ ~StartsWithError(final)

\* a run that ends before the fan-out has no backends or a prompt that
\* fails sanitization
C20_StartCause(ms, p) ==
    \/ ms = <<>> /\ outcome' = "no_models_configured"
    \/ ~sanitize_prompt(p).ok /\ outcome' = "sanitization_failure"

C21_StatsForEveryBackend ==
    \A m \in RLFailing :
       LET st == RateLimiter_get_stats(rl, now) IN
       /\ (rl[m].times # <<>> \/ rl[m].fails > 0) => m \in DOMAIN st
       /\ rlOp.op = "record_failure" /\ rlOp.model = m /\ ~rlOp.raised
          /\ m \in DOMAIN st
          => /\ st[m].is_backing_off
             /\ st[m].consecutive_failures = rl[m].fails

Returns(c) == call[c].pc # "done" /\ call'[c].pc = "done" /\ call'[c].kind = "str"

\* C23: every call of fetch_single_response that returns has finished its
\* RequestMetrics (monitor.finish_request) exactly once, on whichever path
\* it returns: the returning step adds exactly one to total_requests of
\* the backend and to one of successful_requests and failed_requests, no
\* other step changes the counters, and the record of a call that has
\* returned does not change any more.
C23_FinishedExactlyOnce ==
    /\ [](\A c \in Calls :
            call[c].pc = "done" /\ call[c].kind = "str" =>
               call[c].finished = 1)
    /\ [][\A c \in Calls :
            /\ Returns(c) =>
                 /\ call[c].finished = 0
                 /\ stats' = [stats EXCEPT ![call[c].model] =
                       [total_requests |-> @.total_requests + 1,
                        successful_requests |-> @.successful_requests
                           + (IF call'[c].success THEN 1 ELSE 0),
                        failed_requests |-> @.failed_requests
                           + (IF call'[c].success THEN 0 ELSE 1)]]
            /\ call[c].pc = "done" => call'[c] = call[c]
            /\ (\A d \in Calls : ~Returns(d)) => stats' = stats]_vars

\* a call has returned after its third attempt timed out
C23_Witness ==
    /\ call[0].pc = "done"
    /\ call[0].kind = "str"
    /\ call[0].attempt = DEFAULT_MAX_RETRIES - 1
    /\ ~call[0].success
    /\ call[0].finished = 1
    /\ stats[call[0].model].total_requests = 1
    /\ stats[call[0].model].failed_requests = 1

\* C24: the EnsembleMetrics finished at the end of a run of main record
\* refinement_success = true if and only if the refinement call itself
\* succeeded; when the final answer is the fallback (the refinement failed
\* and the valid answers were joined) the recorded flag is false.
C24_RefinementFlag ==
    mode = "main" /\ mainPc = "done" /\ ens.finished = 1
       /\ outcome \in {"completed", "no_valid_responses"}
       => (ens.refinement_success <=> ~RefinementFailed(call[0]))

\* the call c is inside acquire: it waits for the lock or sleeps
InAcquire(c) == call[c].pc \in AcquireSleeps \cup {"lock"}

\* a step of the acquire of call c on backend m
AcquireStep(c, m) ==
    \/ CallAcquire(c, m, MaxAcquires)
    \/ call[c].model = m /\ (AcquireWake(c) \/ LockGranted(c))

\* s is what is left of t after its oldest entries have been removed
IsSuffix(s, t) == \E k \in 0..Len(t) : s = SubSeq(t, k + 1, Len(t))

\* C25: RateLimiter.acquire never fails and always terminates: whatever
\* the state of the backend and whichever tasks acquire concurrently, if
\* time advances and the lock of the backend is handed on fairly, every
\* acquire returns in the end, without an exception, and it has recorded
\* exactly one new timestamp: the step in which it returns appends the
\* current time, and no other step of it adds a timestamp.
C25_AcquireTerminates ==
    /\ \A c \in RLCalls : InAcquire(c) ~> (call[c].pc = "done")
    /\ [](\A c \in RLCalls : call[c].kind # "exc")
    /\ [][\A m \in RLBackends :
            IF \E c \in RLCalls : AcquireStep(c, m) /\ call'[c].pc = "done"
            THEN /\ rl'[m].times # <<>>
                 /\ rl'[m].times[Len(rl'[m].times)] = now
                 /\ IsSuffix(SubSeq(rl'[m].times, 1, Len(rl'[m].times) - 1),
                             rl[m].times)
            ELSE IsSuffix(rl'[m].times, rl[m].times)]_vars

\* two tasks have returned from acquire on the same backend, the later one
\* after it waited for the lock and for the backoff of a failure
C25_Witness ==
    /\ \A c \in RLCalls : call[c].pc = "done" /\ call[c].model = "a"
    /\ lock["a"] = NoCall
    /\ rl["a"].fails > 0
    /\ Len(rl["a"].times) >= 2
    /\ rl["a"].times[Len(rl["a"].times)] >= rl["a"].backoff
    /\ rl["a"].times[Len(rl["a"].times)] = now

\* exactly one of the backend answers of the run is valid
OneValid ==
    fetchRet.kind = "list" /\ Len(ValidResponses(fetchRet.list)) = 1

\* C26: when exactly one backend answer is valid, the run of main returns
\* that answer alone and never attempts the synthesis prompt: no
\* refinement call is issued.
C26_SingleAnswerShortCircuit ==
    mode = "main" /\ OneValid =>
       /\ refineCalls = 0
       /\ mainPc = "done" => final = ValidResponses(fetchRet.list)[1]

\* C27: LoggingContext restores the logging context on exit: whatever the
\* context before the with-block (correlation id set or not, request id
\* set or not) and whichever identifiers the block was given, get_context
\* returns after the block the values it returned before entry.
C27_ContextRestored ==
    [][WithExit =>
          get_context(logContext') =
             logStack[Len(logStack)].old_context]_vars

\* C28: under every interleaving of acquire on a backend with
\* record_failure on the same backend by other calls in flight, acquire
\* does not record its timestamp and return while backoff-until of the
\* backend is still in the future.
C28_NoReturnDuringBackoff ==
    [][\A m \in RLFailing, c \in BackoffCalls :
          AcquireStep(c, m) /\ call'[c].pc = "done" =>
             /\ rl'[m].times[Len(rl'[m].times)] = now
             /\ ~IsBackingOff(rl'[m], now)]_vars

\* C29: a success recorded on the breaker by one call in flight does not
\* bypass the gating for other calls: if the breaker is open and the
\* recovery timeout has not elapsed, then after the record_success of a
\* call that was admitted earlier can_execute still returns false for new
\* calls.
C29_SuccessKeepsGate ==
    [][\A b \in CBBackends :
          CallRecordSuccess(b) /\ Refuses(b) =>
             ~CircuitBreaker_can_execute_ret(cb'[b], now)]_vars

\* C30: one call of fetch_single_response records at most one failure: it
\* raises the consecutive-failure counters of the breaker and of the
\* limiter by at most one, so that a closed breaker with counter 0 cannot
\* become open before failure_threshold separate calls have failed.
C30_OneFailurePerCall ==
    \A c \in Calls : call[c].failures <= 1

\* a call is suspended inside the critical section of acquire for backend m
SuspendedInside(m) ==
    /\ lock[m] # NoCall
    /\ call[Head(lock[m])].pc \in AcquireSleeps

\* C31: every mutation of the limiter state of a backend (timestamps,
\* backoff-until, consecutive failures) is performed while holding the lock
\* of that backend, so that no mutation interleaves with an acquire that
\* is suspended inside its critical section for the same backend: while a
\* call sleeps inside acquire, only that call changes the entry.
C31_MutationsUnderLock ==
    [][\A m \in RLFailing :
          SuspendedInside(m) /\ rl'[m] # rl[m] => AcquireWake(Head(lock[m]))]_vars

\* where the acquire of call c would stand after the sleep it is in, were
\* its remaining checks evaluated on the time and the window of now
FreshStop(c) ==
    LET m == call[c].model
        stop == AcquireStop(StageAfter(call[c].pc),
                            [rl[m] EXCEPT !.times = Prune(@, now)],
                            now, now, rlConfig)
    IN  IF stop.pc = "record" THEN "done" ELSE stop.pc

\* C32: within one acquire the per-minute, per-second and burst conditions
\* are each evaluated at the moment of their own check: after an earlier
\* wait of the same call has elapsed, the per-second and burst checks use
\* the time and the timestamp window as they are then, not as they were
\* when the call started.
C32_ChecksUseCurrentTime ==
    [][\A c \in RLCalls :
          AcquireWake(c) /\ call[c].pc \in {"sleep_minute", "sleep_second"}
             => call'[c].pc = FreshStop(c)]_vars

\* the timestamps of backend m in the second that ends at time t
InSecond(m, t) ==
    {k \in 1..Len(RequestTimes(m)) :
        RequestTimes(m)[k] > t - Second /\ RequestTimes(m)[k] <= t}

\* C33: for every backend and any sequence or interleaving of acquire
\* calls, no trailing window of one second holds more than
\* requests_per_second recorded request timestamps of the backend.
C33_SecondLimit ==
    \A m \in RLBackends :
       \A t \in {now} \cup {RequestTimes(m)[k] :
                               k \in 1..Len(RequestTimes(m))} :
          Cardinality(InSecond(m, t)) <= rlConfig.requests_per_second

\* the third of three acquire calls made at the same time has been
\* recorded one second after the first two
C33_Witness ==
    /\ Len(RequestTimes("a")) = rlConfig.requests_per_second + 1
    /\ RequestTimes("a")[rlConfig.requests_per_second] = RequestTimes("a")[1]
    /\ RequestTimes("a")[rlConfig.requests_per_second + 1] =
          RequestTimes("a")[1] + Second
    /\ now = RequestTimes("a")[1] + Second

\* the fan-out tasks of the run
Tasks == 1..Len(models)

\* the call c is suspended at a wait of the rate limiter, at the backoff
\* wait or at a retry sleep
Suspended(c) == call[c].pc \in AcquireSleeps \cup {"sleep_retry"}

\* C34: in a fan-out over distinct backends, a call that is suspended at
\* a rate-limiter wait, at the backoff wait or at a retry sleep never
\* blocks the call of another backend: while it is suspended, every other
\* call that is about to start can take its step, every other call whose
\* own sleep or timeout is over can go on, and fetch_llm_responses
\* returns in the end, once all calls have ended.
C34_SuspendedCallsDoNotBlock ==
    /\ [](mode = "fetch" =>
            \A c, d \in Tasks :
               c # d /\ Suspended(c) =>
                  /\ call[d].pc = "start" => ENABLED Start(d)
                  /\ call[d].pc \in AcquireSleeps /\ now >= call[d].timer
                       => ENABLED AcquireWake(d)
                  /\ call[d].pc = "sleep_retry" /\ now >= call[d].timer
                       => ENABLED RetryWake(d)
                  /\ call[d].pc = "call" /\ now >= call[d].timer
                       => ENABLED TimeoutFire(d))
    /\ (mainPc = "gather") ~> (mainPc = "done" /\ fetchRet.kind # "none")

\* a call has ended while the call of another backend was still in its
\* backoff wait, and another one while that call was in a retry sleep
C34_Witness ==
    /\ mode = "fetch"
    /\ Len(models) >= 2
    /\ call[1].pc \in {"sleep_backoff", "sleep_retry"}
    /\ call[2].pc = "done"
    /\ call[2].issued >= 1

\* C35: when a run of main is finalized, its EnsembleMetrics hold the
\* RequestMetrics of every backend call of the fan-out: models_attempted
\* is the number of backends called and models_succeeded the number of
\* those calls that succeeded.
C35_EnsembleCountsCalls ==
    mode = "main" /\ ens.finished = 1 =>
       /\ ens.models_attempted =
             Cardinality({i \in Tasks : call[i].pc = "done"})
       /\ ens.models_succeeded =
             Cardinality({i \in Tasks : call[i].pc = "done" /\ call[i].success})

\* C36: the read accessors of the PerformanceMonitor never block: after
\* any sequence of finish_request calls, with statistics recorded for at
\* least one backend, get_model_stats() without a model and
\* get_health_status() return (the first one the statistics of every
\* backend recorded) and leave the lock of the monitor free.
C36_AccessorsReturn ==
    [][(CallGetModelStats(None) \/ CallGetHealthStatus)
          /\ ModelStatsKeys(stats) # {}
          => /\ monCall'.pc = "returned"
             /\ ~monLock'
             /\ monCall'.op = "get_model_stats" =>
                   monCall'.ret = [b \in ModelStatsKeys(stats) |->
                                     DerivedStats(stats[b])]]_vars

\* C37: in every state of a CircuitBreaker after any sequence of
\* can_execute, record_success and record_failure: an open or half-open
\* breaker has failure_count >= failure_threshold and last_failure_time
\* set, and a breaker with failure_count < failure_threshold is closed.
C37_BreakerStateInvariant ==
    \A b \in CBBackends :
       /\ cb[b].state \in {"open", "half-open"} =>
             /\ cb[b].failure_count >= FailureThreshold
             /\ cb[b].last_failure_time # NoTime
       /\ cb[b].failure_count < FailureThreshold => cb[b].state = "closed"

\* a breaker is half-open: it opened and its recovery timeout has passed
C37_Witness ==
    \E b \in CBBackends :
       /\ cb[b].state = "half-open"
       /\ cb[b].failure_count >= FailureThreshold
       /\ cbOp = "can_execute"

\* C38: the classification by the "Error:" prefix agrees with the outcome
\* of the request: once the fan-out has ended, the result of a backend is
\* taken for a failure by fetch_llm_responses (and by combine_responses
\* and refine_response, which apply the same test to the same text) if and
\* only if its call did not succeed; the result of a call recorded as a
\* success counts as valid whatever text the backend returned.
C38_ClassificationAgrees ==
    mode = "fetch" /\ fetchSan = "ok" /\ fetchRet.kind # "none" =>
       \A i \in 1..Len(models) :
          StartsWithError(ProcessResponse(models[i], gathered[i]))
             <=> ~(call[i].pc = "done" /\ call[i].success)

\* C39: POST /generate degrades as main does: when at least one backend
\* gave a valid answer and refine_response fails, the caller receives a
\* best-effort answer (the valid answers joined), not an error response.
C39_WebDegrades ==
    [][GenerateAfterRefine /\ RefinementFailed(call[0])
          /\ ValidResponses(fetchRet.list) # <<>>
          => /\ outcome' = "200"
             /\ final' = FallbackAnswer(fetchRet.list)]_vars

\* C40: with DEFAULT_MAX_RETRIES >= 1 the code after the retry loop of
\* fetch_single_response is never reached: every call leaves from inside
\* the loop, so no call returns "Error: Max retries exceeded" (the text
\* with which that code also finishes the request at the monitor).
C40_FallbackUnreachable ==
    \A c \in Calls :
       call[c].pc = "done" =>
          call[c].text # ErrorString(<<"Max retries exceeded">>)

\* a call has used its last attempt and returned its error from the loop
C40_Witness ==
    \E c \in Calls :
       /\ call[c].pc = "done"
       /\ call[c].kind = "str"
       /\ call[c].attempt = DEFAULT_MAX_RETRIES - 1
       /\ ~call[c].success
       /\ call[c].finished = 1
       /\ call[c].text = ErrorString(<<"Timeout after seconds">>)
====
